---- MODULE Spec2Model ----
(***************************************************************************)
(* times_esa_mcp_server: the duplicate-submission guard (utils.go) and the *)
(* daily-report upsert workflow (handlers.go) against the esa.io client.   *)
(*                                                                         *)
(* Conventions of the model                                                *)
(*  - A Go string is a sequence of runes; a rune is a one-character TLA+   *)
(*    string.  Runes in MultiByteRunes stand for characters whose UTF-8    *)
(*    encoding is three bytes long (kana, kanji), so that len(s) (bytes)   *)
(*    and len([]rune(s)) (code points) differ as they do in Go.            *)
(*  - Strings that the program only formats and compares (post bodies,     *)
(*    error messages) are TLA+ strings built with \o as fmt.Sprintf does.  *)
(*    Japanese literals of the source are written in ASCII: "nippo" for    *)
(*    the category root and title, romanised error messages.               *)
(*  - Time is counted in seconds since 2025-05-03 00:00:00 local time.     *)
(*  - A float64 similarity is kept as the exact fraction <<num, den>>; the *)
(*    threshold is kept in percent.                                        *)
(***************************************************************************)
EXTENDS Integers, Sequences, FiniteSets, TLC

(***************************************************************************)
(* Bounds of the model.                                                    *)
(***************************************************************************)
\* total number of invocations in one behaviour of Spec (two workers)
MaxCalls == 2
\* total number of invocations in one behaviour of SpecSeq (one worker)
MaxSeqCalls == 3
\* seconds of wall-clock time that may pass in one behaviour of Spec
MaxElapsed == 3
\* seconds of wall-clock time that may pass in one behaviour of SpecSeq
MaxSeqElapsed == 5
\* wall-clock second at which a behaviour starts: 23:59:57 of day 0
StartOfRun == 86397
\* total number of invocations in one behaviour of SpecGuard
MaxGuardCalls == 3
\* seconds of wall-clock time that may pass in one behaviour of SpecGuard
MaxGuardElapsed == 3
\* debounceConfig.Duration of the behaviour, in seconds (SetDebounceConfig)
WindowSeconds == 2
\* debounceConfig.SimilarityThreshold of the behaviour, in percent
ThresholdPercent == 50

\* total number of invocations in one behaviour of SpecLive (two workers)
MaxLiveCalls == 2
\* seconds of wall-clock time that may pass in one behaviour of SpecLive
MaxLiveElapsed == 1
\* total number of invocations in one behaviour of SpecTagged (two workers)
MaxTaggedCalls == 2
\* seconds of wall-clock time that may pass in one behaviour of SpecTagged
MaxTaggedElapsed == 1

\* calls made while resetDebounce and SetDebounceConfig run beside them
MaxMutexCalls == 2

\* calls made one after the other, with resets in between
MaxResetCalls == 3
\* longest text, in code points, given to a utility function called directly
MaxLen == 3

\* search options applied to one configuration
MaxOptions == 2

\* the host's request workers: tool invocations that may run concurrently
Procs == {1, 2}

(***************************************************************************)
(* Strings                                                                 *)
(***************************************************************************)
MultiByteRunes == {"K", "N"}

WhiteSpaceRunes == {" ", "\t"}

UTF8Len(r) == IF r \in MultiByteRunes THEN 3 ELSE 1

\* len(s) of Go: the number of bytes of s
RECURSIVE ByteLen(_)
ByteLen(s) == IF s = <<>> THEN 0 ELSE UTF8Len(Head(s)) + ByteLen(Tail(s))

\* the Go string as one TLA+ string, for formatting
RECURSIVE Str(_)
Str(s) == IF s = <<>> THEN "" ELSE Head(s) \o Str(Tail(s))

Min3(a, b, c) == IF a <= b /\ a <= c THEN a ELSE IF b <= c THEN b ELSE c

Max2(a, b) == IF a >= b THEN a ELSE b

\* variant: a matching pair of runes costs a substitution too
RECURSIVE matrix_MatchCosts(_, _, _, _)
matrix_MatchCosts(runes1, runes2, i, j) ==
    IF j = 0 THEN i
    ELSE IF i = 0 THEN j
    ELSE Min3(matrix_MatchCosts(runes1, runes2, i - 1, j) + 1,
              matrix_MatchCosts(runes1, runes2, i, j - 1) + 1,
              matrix_MatchCosts(runes1, runes2, i - 1, j - 1) + 1)

\* variant: an insertion costs two
RECURSIVE matrix_DearInsertion(_, _, _, _)
matrix_DearInsertion(runes1, runes2, i, j) ==
    IF j = 0 THEN i
    ELSE IF i = 0 THEN j
    ELSE LET cost == IF runes1[i] = runes2[j] THEN 0 ELSE 1
         IN  Min3(matrix_DearInsertion(runes1, runes2, i - 1, j) + 1,
                  matrix_DearInsertion(runes1, runes2, i, j - 1) + 2,
                  matrix_DearInsertion(runes1, runes2, i - 1, j - 1) + cost)

\* matrix[i][j] of levenshteinDistance, filled row by row from the borders
RECURSIVE matrix(_, _, _, _)
matrix(runes1, runes2, i, j) ==
    IF j = 0 THEN i
    ELSE IF i = 0 THEN j
    ELSE LET cost == IF runes1[i] = runes2[j] THEN 0 ELSE 1
         IN  Min3(matrix(runes1, runes2, i - 1, j) + 1,
                  matrix(runes1, runes2, i, j - 1) + 1,
                  matrix(runes1, runes2, i - 1, j - 1) + cost)

levenshteinDistance(s1, s2) ==
    IF Len(s1) = 0 THEN Len(s2)
    ELSE IF Len(s2) = 0 THEN Len(s1)
    ELSE IF s1 = s2 THEN 0
    ELSE matrix(s1, s2, Len(s1), Len(s2))

\* variant: the longer length is taken in bytes
textSimilarity_ByteLengths(s1, s2) ==
    IF s1 = s2 THEN <<1, 1>>
    ELSE IF ByteLen(s1) = 0 \/ ByteLen(s2) = 0 THEN <<0, 1>>
    ELSE LET distance == levenshteinDistance(s1, s2)
             maxAllowedDistance == Max2(ByteLen(s1), ByteLen(s2))
         IN  IF distance >= maxAllowedDistance THEN <<0, 1>>
             ELSE <<maxAllowedDistance - distance, maxAllowedDistance>>

\* the float64 result as the fraction <<numerator, denominator>>
textSimilarity(s1, s2) ==
    IF s1 = s2 THEN <<1, 1>>
    ELSE IF ByteLen(s1) = 0 \/ ByteLen(s2) = 0 THEN <<0, 1>>
    ELSE LET distance == levenshteinDistance(s1, s2)
             maxAllowedDistance == Max2(Len(s1), Len(s2))
         IN  IF distance >= maxAllowedDistance THEN <<0, 1>>
             ELSE <<maxAllowedDistance - distance, maxAllowedDistance>>

\* similarity >= threshold, the threshold in percent
SimilarityAtLeast(similarity, percent) ==
    similarity[1] * 100 >= percent * similarity[2]

HasPrefix(s, prefix) ==
    /\ Len(s) >= Len(prefix)
    /\ SubSeq(s, 1, Len(prefix)) = prefix

\* variant: one white-space rune at most is trimmed
TrimLeftSpace_One(s) ==
    IF s # <<>> /\ Head(s) \in WhiteSpaceRunes THEN Tail(s) ELSE s

\* strings.TrimLeftFunc(s, unicode.IsSpace)
RECURSIVE TrimLeftSpace(_)
TrimLeftSpace(s) ==
    IF s # <<>> /\ Head(s) \in WhiteSpaceRunes THEN TrimLeftSpace(Tail(s)) ELSE s

\* variant: the text is left as it was sent
stripPrefix_AsSent(s, prefix) == s

\* variant: the white space after the prefix is kept
stripPrefix_Untrimmed(s, prefix) ==
    IF HasPrefix(s, prefix) THEN SubSeq(s, Len(prefix) + 1, Len(s)) ELSE s

stripPrefix(s, prefix) ==
    IF HasPrefix(s, prefix)
    THEN TrimLeftSpace(SubSeq(s, Len(prefix) + 1, Len(s)))
    ELSE s

TimesEsaPrefix == <<"#", "t", "i", "m", "e", "s", "-", "e", "s", "a">>

(***************************************************************************)
(* Time and formatting                                                     *)
(***************************************************************************)
\* variant: %d in place of %02d
Pad2_Unpadded(n) == ToString(n)

\* fmt.Sprintf("%02d", n)
Pad2(n) == IF n < 10 THEN "0" \o ToString(n) ELSE ToString(n)

\* fmt.Sprintf("nippo/%04d/%02d/%02d", Year, Month, Day) as path segments;
\* second 0 is 2025-05-03 00:00:00 and the model stays within May 2025
Category(t) == <<"nippo", "2025", "05", Pad2(3 + (t \div 86400))>>

GenerateTimestampWithAnchor(t) ==
    LET hh == Pad2((t \div 3600) % 24)
        mm == Pad2((t \div 60) % 60)
    IN  "<a id=\"" \o hh \o mm \o "\" href=\"#" \o hh \o mm \o "\">"
            \o hh \o ":" \o mm \o "</a>"

\* body_md that CreatePost sends
CreateBody(t, text) ==
    GenerateTimestampWithAnchor(t) \o " " \o Str(text) \o "\n\n---"

\* variant: the new content is put after the existing body
UpdateBody_Appending(t, text, existingBody) ==
    IF text # <<>>
    THEN existingBody \o "\n\n" \o GenerateTimestampWithAnchor(t) \o " "
             \o Str(text) \o "\n\n---"
    ELSE existingBody

\* body_md that UpdatePost sends
UpdateBody(t, text, existingBody) ==
    IF text # <<>>
    THEN GenerateTimestampWithAnchor(t) \o " " \o Str(text) \o "\n\n---\n\n"
             \o existingBody
    ELSE existingBody

(***************************************************************************)
(* State                                                                   *)
(***************************************************************************)
VARIABLES
    clock,          \* time.Now(), in seconds
    debounceMap,    \* utils.go: text -> debounceEntry
    debounceMutex,  \* utils.go: 0 when free, else the thread holding it
    debounceConfig, \* utils.go: [Duration, SimilarityThreshold]
    posts,          \* the team's posts on esa.io: Number -> [Category, BodyMd]
    pc,             \* where each invocation stands
    args,           \* params.Arguments of the invocation
    now,            \* the now parameter of submitDailyReportWithClock
    text,           \* the local variable text (after stripPrefix)
    existingPost,   \* the local variable existingPost
    ret,            \* what the invocation returned: [result, err]
    ninvoked,       \* invocations started so far
    calls,          \* history: the client calls of the current invocation
    lastAllowed,    \* history: text -> when isDebounced last returned false for it
    lastSuppressed, \* history: text -> when isDebounced last returned true for it
    retry,          \* history: the invocation repeats, confirmed, the text of
                    \* the call before it, which the confirmation check rejected
    overlapped,     \* history: the invocation ran while another one was running
    journal,        \* history: per post, what the service applied to it
    env,            \* the process environment: [TeamName, AccessToken]
    unit,           \* a direct call of a utility function: arguments and result
    admin           \* the threads calling SetDebounceConfig and resetDebounce

vars == <<clock, debounceMap, debounceMutex, debounceConfig, posts, pc, args,
          now, text, existingPost, ret, ninvoked, calls, lastAllowed,
          lastSuppressed, retry, overlapped, journal, env, unit, admin>>

guardVars == <<debounceMap, debounceMutex, debounceConfig>>

guardHistory == <<lastAllowed, lastSuppressed>>

localVars == <<args, now, text, existingPost>>

\* the arguments a caller may send: an empty text with and without the
\* confirmation, one text without it, and confirmed texts of which "ab" and
\* "ac" are similar (one substitution in two runes) and "xy" is unlike both
InputArguments ==
    { [Text |-> <<>>, ConfirmedByUser |-> TRUE],
      [Text |-> <<>>, ConfirmedByUser |-> FALSE],
      [Text |-> <<"a", "b">>, ConfirmedByUser |-> FALSE],
      [Text |-> <<"a", "b">>, ConfirmedByUser |-> TRUE],
      [Text |-> <<"a", "c">>, ConfirmedByUser |-> TRUE],
      [Text |-> <<"x", "y">>, ConfirmedByUser |-> TRUE] }

\* the arguments of requests dispatched in parallel: the confirmed ones
ParallelArguments == {a \in InputArguments : a.Text # <<>> /\ a.ConfirmedByUser}

\* the now parameter: submitDailyReportHandler passes time.Now()
InjectedTimes(t) == {t}

\* a nil *EsaPost
NoPost == [Number |-> 0, BodyMd |-> ""]

NilResult == [Success |-> FALSE, Message |-> "", Post |-> NoPost]

NoArgs == [Text |-> <<>>, ConfirmedByUser |-> FALSE]

EmptyMap == [k \in {} |-> [text |-> k, timestamp |-> 0]]

NoPosts == [n \in {} |-> [Category |-> <<>>, BodyMd |-> ""]]

\* history: a text the workflow wrote at time t, by hour and minute
Submission(t, s) == [hhmm |-> (t \div 60) % 1440, text |-> s]

\* the error an esa.io call returns when the request or the service fails
RemoteFailure == "internal_server_error: remote failure"

\* the error of part_014 263-266: the answer to a POST or PATCH that the
\* service carried out cannot be decoded
ErrUnreadablePost == "toukou no kaiseki ni shippai: unexpected EOF"

ErrEmptyText == "text parameter cannot be empty"

ErrConfirmationRequired ==
    "toukou mae ni user ni yoru naiyou no kakunin ga hitsuyou desu. naiyou no kakunin wo user ni okonattara, confirmed_by_user=true wo settei shite kudasai"

ErrMultiplePosts == "fukusuu no nippou ga sonzai shimasu"

ErrDebounced(seconds) ==
    ToString(seconds)
        \o "byou inai ni onaji naiyou no toukou ga okonawaremashita. shibaraku matte kara saishikou shite kudasai"

\* variant: the prefix alone, the error of the client dropped
ErrSearchFailed_Bare(err) == "toukou no kensaku ni shippai shimashita"

ErrSearchFailed(err) == "toukou no kensaku ni shippai shimashita: " \o err

ErrCreateFailed(err) == "shinki toukou no sakusei ni shippai shimashita: " \o err

ErrUpdateFailed(err) == "toukou no koushin ni shippai shimashita: " \o err

MsgPosted == "nippou wo toukou shimashita"

\* the post of 10:00 that a journal already holds when a behaviour starts
ExistingBody == CreateBody(36000, <<"o", "l", "d">>)

\* what the team's journal may hold when a behaviour starts: nothing, or
\* the day's post
InitialJournals ==
    { NoPosts,
      [n \in {1} |-> [Category |-> Category(StartOfRun), BodyMd |-> ExistingBody]] }

\* a journal in which somebody has filed two posts under the day's category
DoubleJournal ==
    [n \in {1, 2} |-> [Category |-> Category(StartOfRun), BodyMd |-> ExistingBody]]

\* part_014 83-90, ConfigFromEnv: os.Getenv yields "" for an unset variable
ConfiguredEnv == [TeamName |-> "team", AccessToken |-> "token"]

\* the environments the server may be started in
Environments == [TeamName : {"", "team"}, AccessToken : {"", "token"}]

\* no utility function is being called directly
NoUnit == [fn |-> "idle"]

\* the thread that calls SetDebounceConfig, as holder of debounceMutex
Configurer == 3

\* the thread that calls resetDebounce, as holder of debounceMutex
Resetter == 4

\* neither thread is calling
NoAdmin == [t \in {Configurer, Resetter} |-> "idle"]

\* the configuring thread has called SetDebounceConfig and is in Lock()
ConfigurerCalling == [NoAdmin EXCEPT ![Configurer] = "Lock"]

InitWith(journals, environments, threads) ==
    /\ admin = threads
    /\ env \in environments
    /\ unit = NoUnit
    /\ clock = StartOfRun
    /\ debounceMap = EmptyMap
    /\ debounceMutex = 0
    /\ debounceConfig = [Duration |-> WindowSeconds,
                         SimilarityThreshold |-> ThresholdPercent]
    /\ posts \in journals
    /\ pc = [p \in Procs |-> "idle"]
    /\ args = [p \in Procs |-> NoArgs]
    /\ now = [p \in Procs |-> 0]
    /\ text = [p \in Procs |-> <<>>]
    /\ existingPost = [p \in Procs |-> NoPost]
    /\ ret = [p \in Procs |-> [result |-> NilResult, err |-> ""]]
    /\ ninvoked = 0
    /\ calls = [p \in Procs |-> <<>>]
    /\ lastAllowed = [k \in {} |-> 0]
    /\ lastSuppressed = [k \in {} |-> 0]
    /\ retry = [p \in Procs |-> FALSE]
    /\ overlapped = [p \in Procs |-> FALSE]
    /\ journal = [n \in DOMAIN posts |->
                    [searched |-> posts[n].Category, base |-> posts[n].BodyMd,
                     subs |-> <<>>, raced |-> FALSE]]

InitIn(journals, environments) == InitWith(journals, environments, NoAdmin)

InitFrom(journals) == InitIn(journals, {ConfiguredEnv})

Init == InitFrom(InitialJournals)

InitSeq == InitFrom(InitialJournals \cup {DoubleJournal})

Running(p) == pc[p] \notin {"idle", "done"}

(***************************************************************************)
(* SubmissionGuard: isDebounced                                            *)
(***************************************************************************)
\* variant: an entry still counts when its age is exactly the window
Live_Inclusive(entry, t, config) == t - entry.timestamp <= config.Duration

\* variant: an entry stops counting one second early
Live_OneSecondShort(entry, t, config) ==
    t - entry.timestamp < config.Duration - 1

\* time.Since(entry.timestamp) < debounceConfig.Duration
Live(entry, t, config) == t - entry.timestamp < config.Duration

\* utils.go 150-155
ExactMatch(map, s, t, config) ==
    /\ s \in DOMAIN map
    /\ Live(map[s], t, config)

\* variant: texts of two bytes are exempt from the similarity check too
SimilarMatch_OverTwoBytes(map, s, t, config) ==
    \E storedText \in DOMAIN map :
        /\ t - map[storedText].timestamp < config.Duration
        /\ ByteLen(s) > 2
        /\ ByteLen(storedText) > 2
        /\ SimilarityAtLeast(textSimilarity(s, storedText),
                             config.SimilarityThreshold)

\* variant: a text is suppressed only when it is more than the threshold
\* alike
SimilarMatch_Strict(map, s, t, config) ==
    \E storedText \in DOMAIN map :
        /\ t - map[storedText].timestamp < config.Duration
        /\ ByteLen(s) > 1
        /\ ByteLen(storedText) > 1
        /\ textSimilarity(s, storedText)[1] * 100
              > config.SimilarityThreshold * textSimilarity(s, storedText)[2]

\* utils.go 158-170
SimilarMatch(map, s, t, config) ==
    \E storedText \in DOMAIN map :
        /\ Live(map[storedText], t, config)
        /\ ByteLen(s) > 1
        /\ ByteLen(storedText) > 1
        /\ SimilarityAtLeast(textSimilarity(s, storedText),
                             config.SimilarityThreshold)

\* variant: the accepted text is not entered
InsertEntry_Skipped(map, s, t) == map

\* utils.go 173-176
InsertEntry(map, s, t) ==
    [k \in DOMAIN map \cup {s} |->
        IF k = s THEN [text |-> s, timestamp |-> t] ELSE map[k]]

\* variant: no entry is ever deleted
Cleanup_Never(map, t, config) == map

\* utils.go 179-183
Cleanup(map, t, config) ==
    [k \in {x \in DOMAIN map : ~(t - map[x].timestamp > config.Duration * 2)}
        |-> map[k]]

\* history: s was last seen at t
Stamp(history, s, t) ==
    [k \in DOMAIN history \cup {s} |-> IF k = s THEN t ELSE history[k]]

\* variant: the check of utils.go 144-170 made without waiting for the mutex
isDebounced_CheckUnlocked(p) ==
    /\ pc[p] = "lock"
    /\ IF \/ text[p] = <<>>
          \/ text[p] \in DOMAIN debounceMap
             /\ clock - debounceMap[text[p]].timestamp < debounceConfig.Duration
          \/ \E storedText \in DOMAIN debounceMap :
                /\ clock - debounceMap[storedText].timestamp < debounceConfig.Duration
                /\ ByteLen(text[p]) > 1
                /\ ByteLen(storedText) > 1
                /\ SimilarityAtLeast(textSimilarity(text[p], storedText),
                                     debounceConfig.SimilarityThreshold)
       THEN /\ pc' = [pc EXCEPT ![p] = "debounced"]
            /\ lastSuppressed' =
                  [k \in DOMAIN lastSuppressed \cup {text[p]} |->
                      IF k = text[p] THEN clock ELSE lastSuppressed[k]]
            /\ UNCHANGED debounceMutex
       ELSE /\ pc' = [pc EXCEPT ![p] = "record"]
            /\ debounceMutex' = p
            /\ UNCHANGED lastSuppressed
    /\ UNCHANGED <<env, unit, admin, clock, debounceMap, debounceConfig, posts, localVars, ret,
                   ninvoked, calls, lastAllowed, retry, overlapped, journal>>

\* variant: the returns of true leave the mutex locked
isDebounced_Check_NoUnlock(p) ==
    /\ pc[p] = "lock"
    /\ debounceMutex = 0
    /\ IF \/ text[p] = <<>>
          \/ ExactMatch(debounceMap, text[p], clock, debounceConfig)
          \/ SimilarMatch(debounceMap, text[p], clock, debounceConfig)
       THEN /\ pc' = [pc EXCEPT ![p] = "debounced"]
            /\ lastSuppressed' = Stamp(lastSuppressed, text[p], clock)
            /\ debounceMutex' = p
       ELSE /\ pc' = [pc EXCEPT ![p] = "record"]
            /\ debounceMutex' = p
            /\ UNCHANGED lastSuppressed
    /\ UNCHANGED <<env, unit, admin, clock, debounceMap, debounceConfig, posts, localVars, ret,
                   ninvoked, calls, lastAllowed, retry, overlapped, journal>>

\* utils.go 141-170: debounceMutex.Lock(), then the three returns of true,
\* each releasing the mutex; otherwise on to the insertion, mutex held
isDebounced_Check(p) ==
    /\ pc[p] = "lock"
    /\ debounceMutex = 0
    /\ IF \/ text[p] = <<>>
          \/ ExactMatch(debounceMap, text[p], clock, debounceConfig)
          \/ SimilarMatch(debounceMap, text[p], clock, debounceConfig)
       THEN /\ pc' = [pc EXCEPT ![p] = "debounced"]
            /\ lastSuppressed' = Stamp(lastSuppressed, text[p], clock)
            /\ UNCHANGED debounceMutex
       ELSE /\ pc' = [pc EXCEPT ![p] = "record"]
            /\ debounceMutex' = p
            /\ UNCHANGED lastSuppressed
    /\ UNCHANGED <<env, unit, admin, clock, debounceMap, debounceConfig, posts, localVars, ret,
                   ninvoked, calls, lastAllowed, retry, overlapped, journal>>

\* utils.go 172-185: insert, clean up, return false, release the mutex
isDebounced_Record(p) ==
    /\ pc[p] = "record"
    /\ debounceMap' = Cleanup(InsertEntry(debounceMap, text[p], clock),
                              clock, debounceConfig)
    /\ debounceMutex' = 0
    /\ lastAllowed' = Stamp(lastAllowed, text[p], clock)
    /\ pc' = [pc EXCEPT ![p] = "search"]
    /\ UNCHANGED <<env, unit, admin, clock, debounceConfig, posts, localVars, ret, ninvoked,
                   calls, lastSuppressed, retry, overlapped, journal>>

(***************************************************************************)
(* The esa.io service, as the client sees it                               *)
(***************************************************************************)
\* q=category:X matches the posts whose category contains X
CategoryMatches(postCategory, category) ==
    \E i \in 0..(Len(postCategory) - Len(category)) :
        SubSeq(postCategory, i + 1, i + Len(category)) = category

\* the posts a search for category:X reports (total_count is their number)
Matching(category) ==
    {n \in DOMAIN posts : CategoryMatches(posts[n].Category, category)}

\* the EsaPost decoded from the service's answer for post n
EsaPost(n) == [Number |-> n, BodyMd |-> posts[n].BodyMd]

\* the number the service gives the next created post
NextNumber == Cardinality(DOMAIN posts) + 1

\* return nil, err: the frame's now and existingPost are gone
Failed(p, err) ==
    /\ pc' = [pc EXCEPT ![p] = "done"]
    /\ ret' = [ret EXCEPT ![p] = [result |-> NilResult, err |-> err]]
    /\ now' = [now EXCEPT ![p] = 0]
    /\ existingPost' = [existingPost EXCEPT ![p] = NoPost]

\* handlers.go 79-85: return the response, nil
Succeeded(p, post) ==
    /\ pc' = [pc EXCEPT ![p] = "done"]
    /\ ret' = [ret EXCEPT ![p] =
                  [result |-> [Success |-> TRUE, Message |-> MsgPosted,
                               Post |-> post],
                   err |-> ""]]
    /\ now' = [now EXCEPT ![p] = 0]
    /\ existingPost' = [existingPost EXCEPT ![p] = NoPost]

(***************************************************************************)
(* ReportUpsertWorkflow: submitDailyReportWithClock                        *)
(***************************************************************************)
\* variant: the empty-text check is made on the text without its prefix
ValidationError_Normalised(a) ==
    IF stripPrefix(a.Text, TimesEsaPrefix) = <<>> THEN ErrEmptyText
    ELSE IF ~a.ConfirmedByUser THEN ErrConfirmationRequired
    ELSE ""

\* variant: the confirmation check of handlers.go 36-42 left out
ValidationError_Unconfirmed(a) ==
    IF a.Text = <<>> THEN ErrEmptyText ELSE ""

\* variant: the confirmation check made before the empty-text check
ValidationError_ConfirmationFirst(a) ==
    IF ~a.ConfirmedByUser THEN ErrConfirmationRequired
    ELSE IF a.Text = <<>> THEN ErrEmptyText
    ELSE ""

\* handlers.go 28-42: the error of the argument checks, "" when they pass
ValidationError(a) ==
    IF a.Text = <<>> THEN ErrEmptyText
    ELSE IF ~a.ConfirmedByUser THEN ErrConfirmationRequired
    ELSE ""

\* variant: the workflow creates whatever the search returned
WriteAfterSearch_AlwaysCreate(post) == "create"

\* handlers.go 63-76: the client call that follows the search
WriteAfterSearch(post) == IF post = NoPost THEN "create" ELSE "update"

ErrNotConfigured == "ESA_TEAM_NAME mata wa ESA_ACCESS_TOKEN ga settei sarete imasen"

\* variant: the client is built whatever the environment holds
CreateEsaClient_Unchecked(config) == ""

\* handlers.go 16-23, DefaultHandlerFactory.CreateEsaClient: the error it
\* returns for this configuration, "" when it returns a client
CreateEsaClient(config) ==
    IF config.TeamName = "" \/ config.AccessToken = "" THEN ErrNotConfigured
    ELSE ""

\* handlers.go 89-96 and 26-45: the call arrives at submitDailyReportHandler;
\* CreateEsaClient, then in submitDailyReportWithClock the empty-text check,
\* the confirmation check and stripPrefix
Invoke(p, a, n) ==
    /\ ~Running(p)
    /\ \A q \in Procs : q < p => Running(q)
    /\ ninvoked' = ninvoked + 1
    /\ retry' = [retry EXCEPT ![p] =
                    /\ pc[p] = "done"
                    /\ ret[p].err = ErrConfirmationRequired
                    /\ args[p].Text = a.Text
                    /\ a.ConfirmedByUser]
    /\ args' = [args EXCEPT ![p] = a]
    /\ calls' = [calls EXCEPT ![p] = <<>>]
    /\ overlapped' = [q \in Procs |->
                        IF q = p THEN \E r \in Procs \ {p} : Running(r)
                        ELSE overlapped[q] \/ Running(q)]
    /\ IF CreateEsaClient(env) # ""
       THEN /\ Failed(p, CreateEsaClient(env))
            /\ text' = [text EXCEPT ![p] = a.Text]
       ELSE IF ValidationError(a) # ""
       THEN /\ Failed(p, ValidationError(a))
            /\ text' = [text EXCEPT ![p] = a.Text]
       ELSE /\ text' = [text EXCEPT ![p] = stripPrefix(a.Text, TimesEsaPrefix)]
            /\ pc' = [pc EXCEPT ![p] = "lock"]
            /\ ret' = [ret EXCEPT ![p] = [result |-> NilResult, err |-> ""]]
            /\ now' = [now EXCEPT ![p] = n]
            /\ existingPost' = [existingPost EXCEPT ![p] = NoPost]
    /\ UNCHANGED <<env, unit, admin, clock, guardVars, posts, guardHistory, journal>>

\* the windows SetDebounceConfig is called with: a shorter and a longer one
ConfigDurations == {WindowSeconds - 1, WindowSeconds + 1}

\* the thresholds SetDebounceConfig is called with: the one in force, and 1.0
ConfigThresholds == {ThresholdPercent, 100}

\* utils.go 130: SetDebounceConfig is called; the window is changed once in
\* a behaviour
SetDebounceConfig_Call ==
    /\ admin[Configurer] = "idle"
    /\ debounceConfig.Duration = WindowSeconds
    /\ admin' = [admin EXCEPT ![Configurer] = "Lock"]
    /\ UNCHANGED <<env, unit, clock, guardVars, posts, pc, localVars, ret,
                   ninvoked, calls, guardHistory, retry, overlapped, journal>>

\* utils.go 131: debounceMutex.Lock() returns to SetDebounceConfig
SetDebounceConfig_Lock ==
    /\ admin[Configurer] = "Lock"
    /\ debounceMutex = 0
    /\ debounceMutex' = Configurer
    /\ admin' = [admin EXCEPT ![Configurer] = "locked"]
    /\ UNCHANGED <<env, unit, clock, debounceMap, debounceConfig, posts, pc, localVars,
                   ret, ninvoked, calls, guardHistory, retry, overlapped,
                   journal>>

\* variant: SetDebounceConfig empties debounceMap as well
SetDebounceConfig_Clearing(duration, similarityThreshold) ==
    /\ debounceMutex = Configurer
    /\ debounceConfig' = [Duration |-> duration,
                          SimilarityThreshold |-> similarityThreshold]
    /\ debounceMap' = EmptyMap
    /\ debounceMutex' = 0
    /\ admin' = [admin EXCEPT ![Configurer] = "idle"]
    /\ UNCHANGED <<env, unit, clock, posts, pc, localVars, ret, ninvoked,
                   calls, guardHistory, retry, overlapped, journal>>

\* utils.go 134-136: SetDebounceConfig writes the configuration and returns
SetDebounceConfig_Write(duration, similarityThreshold) ==
    /\ debounceMutex = Configurer
    /\ debounceConfig' = [Duration |-> duration,
                          SimilarityThreshold |-> similarityThreshold]
    /\ debounceMutex' = 0
    /\ admin' = [admin EXCEPT ![Configurer] = "idle"]
    /\ UNCHANGED <<env, unit, clock, debounceMap, posts, pc, localVars, ret, ninvoked,
                   calls, guardHistory, retry, overlapped, journal>>

\* utils.go 123: resetDebounce is called
resetDebounce_Call ==
    /\ admin[Resetter] = "idle"
    /\ admin' = [admin EXCEPT ![Resetter] = "Lock"]
    /\ UNCHANGED <<env, unit, clock, guardVars, posts, pc, localVars, ret,
                   ninvoked, calls, guardHistory, retry, overlapped, journal>>

\* utils.go 124: debounceMutex.Lock() returns to resetDebounce
resetDebounce_Lock ==
    /\ admin[Resetter] = "Lock"
    /\ debounceMutex = 0
    /\ debounceMutex' = Resetter
    /\ admin' = [admin EXCEPT ![Resetter] = "locked"]
    /\ UNCHANGED <<env, unit, clock, debounceMap, debounceConfig, posts, pc,
                   localVars, ret, ninvoked, calls, guardHistory, retry,
                   overlapped, journal>>

\* variant: resetDebounce leaves the map as it is
resetDebounce_Keeping ==
    /\ admin[Resetter] = "locked"
    /\ debounceMutex' = 0
    /\ admin' = [admin EXCEPT ![Resetter] = "idle"]
    /\ UNCHANGED <<env, unit, clock, debounceMap, debounceConfig, posts, pc,
                   localVars, ret, ninvoked, calls, guardHistory, retry,
                   overlapped, journal>>

\* utils.go 125-127: resetDebounce replaces the map by an empty one and
\* returns, releasing the mutex
resetDebounce_Clear ==
    /\ admin[Resetter] = "locked"
    /\ debounceMap' = EmptyMap
    /\ debounceMutex' = 0
    /\ admin' = [admin EXCEPT ![Resetter] = "idle"]
    /\ UNCHANGED <<env, unit, clock, debounceConfig, posts, pc, localVars, ret,
                   ninvoked, calls, guardHistory, retry, overlapped, journal>>

\* handlers.go 50: debounceConfig.Duration is read without debounceMutex;
\* a read made while SetDebounceConfig is between Lock and Unlock races with
\* the write of utils.go 134 and yields the old or the new window
DurationsRead ==
    IF debounceMutex = Configurer
    THEN {debounceConfig.Duration} \cup ConfigDurations
    ELSE {debounceConfig.Duration}

\* variant: the invocation goes on to the search though isDebounced
\* returned true
DuplicateError_Ignored(p) ==
    /\ pc[p] = "debounced"
    /\ pc' = [pc EXCEPT ![p] = "search"]
    /\ UNCHANGED <<env, unit, admin, clock, guardVars, posts, localVars, ret, ninvoked, calls,
                   guardHistory, retry, overlapped, journal>>

\* handlers.go 48-52: isDebounced returned true
DuplicateError(p) ==
    /\ pc[p] = "debounced"
    /\ \E debounceSeconds \in DurationsRead :
          Failed(p, ErrDebounced(debounceSeconds))
    /\ UNCHANGED <<env, unit, admin, clock, guardVars, posts, args, text, ninvoked, calls,
                   guardHistory, retry, overlapped, journal>>

\* variant: of several posts the first listed one is returned
SearchResult_FirstOfMany(totalCount, first) ==
    IF totalCount = 0 THEN [post |-> NoPost, err |-> ""]
    ELSE [post |-> first, err |-> ""]

\* EsaClient.SearchPostByCategory, part_014 103-113: what it returns for a
\* decoded answer with this total_count whose first listed post is first
SearchResult(totalCount, first) ==
    IF totalCount = 0 THEN [post |-> NoPost, err |-> ""]
    ELSE IF totalCount > 1 THEN [post |-> NoPost, err |-> ErrMultiplePosts]
    ELSE [post |-> first, err |-> ""]

\* variant: a search that failed is made once more
SearchPostByCategory_RetryingOnce(p) ==
    /\ pc[p] = "search"
    /\ \E answered \in BOOLEAN :
        LET category == Category(now[p])
            listed == Matching(category)
            first == IF listed = {} THEN NoPost
                     ELSE EsaPost(CHOOSE n \in listed : \A m \in listed : n <= m)
            result == IF answered
                      THEN SearchResult(Cardinality(listed), first)
                      ELSE [post |-> NoPost, err |-> RemoteFailure]
        IN  /\ calls' = [calls EXCEPT ![p] =
                   Append(@, [op |-> "search", n |-> result.post.Number,
                              ok |-> result.err = "", err |-> result.err])]
            /\ IF result.err # "" /\ calls[p] = <<>>
               THEN UNCHANGED <<pc, ret, now, existingPost>>
               ELSE IF result.err # ""
               THEN Failed(p, ErrSearchFailed(result.err))
               ELSE /\ existingPost' = [existingPost EXCEPT ![p] = result.post]
                    /\ pc' = [pc EXCEPT ![p] = WriteAfterSearch(result.post)]
                    /\ UNCHANGED <<ret, now>>
    /\ UNCHANGED <<env, unit, admin, clock, guardVars, posts, args, text, ninvoked,
                   guardHistory, retry, overlapped, journal>>

\* handlers.go 55-64 with EsaClient.SearchPostByCategory (part_014 93-114)
SearchPostByCategory(p) ==
    /\ pc[p] = "search"
    /\ \E answered \in BOOLEAN :
        LET category == Category(now[p])
            listed == Matching(category)
            first == IF listed = {} THEN NoPost
                     ELSE EsaPost(CHOOSE n \in listed : \A m \in listed : n <= m)
            result == IF answered
                      THEN SearchResult(Cardinality(listed), first)
                      ELSE [post |-> NoPost, err |-> RemoteFailure]
        IN  /\ calls' = [calls EXCEPT ![p] =
                   Append(@, [op |-> "search", n |-> result.post.Number,
                              ok |-> result.err = "", err |-> result.err])]
            /\ IF result.err # ""
               THEN Failed(p, ErrSearchFailed(result.err))
               ELSE /\ existingPost' = [existingPost EXCEPT ![p] = result.post]
                    /\ pc' = [pc EXCEPT ![p] = WriteAfterSearch(result.post)]
                    /\ UNCHANGED <<ret, now>>
    /\ UNCHANGED <<env, unit, admin, clock, guardVars, posts, args, text, ninvoked,
                   guardHistory, retry, overlapped, journal>>

\* what becomes of a POST or PATCH: the service applies it and answers with
\* the post ("ok"); the request or the service fails and nothing is applied
\* ("error", part_014 248-260); the service applies it, but the answer
\* cannot be decoded ("unreadable", part_014 263-266)
RemoteOutcomes == {"ok", "error", "unreadable"}

\* the error the client returns for an outcome, "" for none
OutcomeError(outcome) ==
    IF outcome = "ok" THEN ""
    ELSE IF outcome = "error" THEN RemoteFailure
    ELSE ErrUnreadablePost

\* history: one client call of an invocation
Call(op, n, err) == [op |-> op, n |-> n, ok |-> err = "", err |-> err]

\* handlers.go 64-69, 79-85 with EsaClient.CreatePost (part_014 202-269)
CreatePost(p) ==
    /\ pc[p] = "create"
    /\ \E outcome \in RemoteOutcomes :
        LET number == NextNumber
            body == CreateBody(clock, text[p])
            err == OutcomeError(outcome)
        IN  /\ IF outcome = "error"
               THEN UNCHANGED <<posts, journal>>
               ELSE /\ posts' = posts @@
                          (number :> [Category |-> Category(clock),
                                      BodyMd |-> body])
                    /\ journal' = journal @@
                          (number :> [searched |-> Category(now[p]),
                                      base |-> "",
                                      subs |-> <<Submission(clock, text[p])>>,
                                      raced |-> overlapped[p]])
            /\ IF err # ""
               THEN /\ Failed(p, ErrCreateFailed(err))
                    /\ calls' = [calls EXCEPT ![p] =
                                    Append(@, Call("create", 0, err))]
               ELSE /\ Succeeded(p, [Number |-> number, BodyMd |-> body])
                    /\ calls' = [calls EXCEPT ![p] =
                                    Append(@, Call("create", number, ""))]
    /\ UNCHANGED <<env, unit, admin, clock, guardVars, args, text, ninvoked, guardHistory, retry,
                   overlapped>>

\* handlers.go 70-76, 79-85 with EsaClient.UpdatePost (part_014 272-334)
UpdatePost(p) ==
    /\ pc[p] = "update"
    /\ \E outcome \in RemoteOutcomes :
        LET number == existingPost[p].Number
            body == UpdateBody(clock, text[p], existingPost[p].BodyMd)
            err == OutcomeError(outcome)
        IN  /\ IF outcome = "error"
               THEN UNCHANGED <<posts, journal>>
               ELSE /\ posts' = [posts EXCEPT ![number].BodyMd = body]
                    /\ journal' = [journal EXCEPT
                          ![number].subs = Append(@, Submission(clock, text[p])),
                          ![number].raced = @ \/ overlapped[p]]
            /\ calls' = [calls EXCEPT ![p] = Append(@, Call("update", number, err))]
            /\ IF err # ""
               THEN Failed(p, ErrUpdateFailed(err))
               ELSE Succeeded(p, [Number |-> number, BodyMd |-> body])
    /\ UNCHANGED <<env, unit, admin, clock, guardVars, args, text, ninvoked, guardHistory, retry,
                   overlapped>>

\* a second of wall-clock time passes
Tick(limit) ==
    /\ clock < StartOfRun + limit
    /\ clock' = clock + 1
    /\ UNCHANGED <<env, unit, admin, guardVars, posts, pc, localVars, ret, ninvoked, calls,
                   guardHistory, retry, overlapped, journal>>

Next ==
    \/ Tick(MaxElapsed)
    \/ \E p \in Procs, a \in ParallelArguments :
          \E n \in InjectedTimes(clock) : ninvoked < MaxCalls /\ Invoke(p, a, n)
    \/ \E p \in Procs : isDebounced_Check(p)
    \/ \E p \in Procs : isDebounced_Record(p)
    \/ \E p \in Procs : DuplicateError(p)
    \/ \E p \in Procs : SearchPostByCategory(p)
    \/ \E p \in Procs : CreatePost(p)
    \/ \E p \in Procs : UpdatePost(p)

\* the host dispatches requests in parallel
Spec == Init /\ [][Next]_vars

NextSeq ==
    \/ Tick(MaxSeqElapsed)
    \/ \E a \in InputArguments :
          \E n \in InjectedTimes(clock) : ninvoked < MaxSeqCalls /\ Invoke(1, a, n)
    \/ isDebounced_Check(1)
    \/ isDebounced_Record(1)
    \/ DuplicateError(1)
    \/ SearchPostByCategory(1)
    \/ CreatePost(1)
    \/ UpdatePost(1)

\* the host dispatches one request after the other
SpecSeq == InitSeq /\ [][NextSeq]_vars

\* the arguments sent while the guard is reconfigured: confirmed texts of
\* one and of two three-byte characters, and one of two one-byte characters
GuardArguments ==
    { [Text |-> <<"K">>, ConfirmedByUser |-> TRUE],
      [Text |-> <<"K", "N">>, ConfirmedByUser |-> TRUE],
      [Text |-> <<"a", "b">>, ConfirmedByUser |-> TRUE] }

InitGuard == InitWith({NoPosts}, Environments, ConfigurerCalling)

NextGuard ==
    \/ Tick(MaxGuardElapsed)
    \/ \E a \in GuardArguments :
          \E n \in InjectedTimes(clock) :
              ninvoked < MaxGuardCalls /\ Invoke(1, a, n)
    \/ isDebounced_Check(1)
    \/ isDebounced_Record(1)
    \/ DuplicateError(1)
    \/ SearchPostByCategory(1)
    \/ CreatePost(1)
    \/ UpdatePost(1)
    \/ SetDebounceConfig_Lock
    \/ \E duration \in ConfigDurations, similarityThreshold \in ConfigThresholds :
          SetDebounceConfig_Write(duration, similarityThreshold)

\* one request after the other, while another thread calls SetDebounceConfig
SpecGuard == InitGuard /\ [][NextGuard]_vars

\* a category below the day's category
SubCategory(t) == Category(t) \o <<"memo">>

\* journals in which a post is filed below the day's category: alone, and
\* beside the day's post
SubCategoryJournals ==
    { [n \in {1} |-> [Category |-> SubCategory(StartOfRun),
                      BodyMd |-> ExistingBody]],
      [n \in {1, 2} |->
          [Category |-> IF n = 1 THEN Category(StartOfRun)
                        ELSE SubCategory(StartOfRun),
           BodyMd |-> ExistingBody]] }

\* confirmed arguments that carry #times-esa: before a text, after one space
\* or after a space and a tab, and with nothing but a space after it; and
\* the text without it
TaggedArguments ==
    { [Text |-> TimesEsaPrefix \o <<" ", "a", "b">>, ConfirmedByUser |-> TRUE],
      [Text |-> TimesEsaPrefix \o <<" ", "\t", "a", "b">>,
       ConfirmedByUser |-> TRUE],
      [Text |-> <<"a", "b">>, ConfirmedByUser |-> TRUE],
      [Text |-> TimesEsaPrefix \o <<" ">>, ConfirmedByUser |-> TRUE] }

InitTagged == InitFrom({NoPosts} \cup SubCategoryJournals)

NextTagged ==
    \/ Tick(MaxTaggedElapsed)
    \/ \E p \in Procs, a \in TaggedArguments :
          \E n \in InjectedTimes(clock) :
              ninvoked < MaxTaggedCalls /\ Invoke(p, a, n)
    \/ \E p \in Procs : isDebounced_Check(p)
    \/ \E p \in Procs : isDebounced_Record(p)
    \/ \E p \in Procs : DuplicateError(p)
    \/ \E p \in Procs : SearchPostByCategory(p)
    \/ \E p \in Procs : CreatePost(p)
    \/ \E p \in Procs : UpdatePost(p)

\* requests that carry the #times-esa prefix, against journals with
\* sub-categories
SpecTagged == InitTagged /\ [][NextTagged]_vars

\* the arguments sent between resets: a text and a text half like it
ResetArguments ==
    { [Text |-> <<"a", "b">>, ConfirmedByUser |-> TRUE],
      [Text |-> <<"a", "c">>, ConfirmedByUser |-> TRUE] }

InitReset == InitWith({NoPosts}, {ConfiguredEnv}, NoAdmin)

NextReset ==
    \/ \E a \in ResetArguments :
          \E n \in InjectedTimes(clock) :
              ninvoked < MaxResetCalls /\ Invoke(1, a, n)
    \/ isDebounced_Check(1)
    \/ isDebounced_Record(1)
    \/ DuplicateError(1)
    \/ SearchPostByCategory(1)
    \/ CreatePost(1)
    \/ UpdatePost(1)
    \/ SetDebounceConfig_Call
    \/ SetDebounceConfig_Lock
    \/ \E duration \in ConfigDurations, similarityThreshold \in ConfigThresholds :
          SetDebounceConfig_Write(duration, similarityThreshold)
    \/ resetDebounce_Call
    \/ resetDebounce_Lock
    \/ resetDebounce_Clear

\* one request after the other, as in the tests, with calls of resetDebounce
\* and SetDebounceConfig by other threads
SpecReset == InitReset /\ [][NextReset]_vars

\* the texts isDebounced is called with while the guard is reset and
\* reconfigured: a text, a text half like it, and the empty text
MutexTexts == { <<"a", "b">>, <<"a", "c">>, <<>> }

\* a thread calls isDebounced(s) directly, as the tests of utils.go do
Call_isDebounced(p, s) ==
    /\ ~Running(p)
    /\ \A q \in Procs : q < p => Running(q)
    /\ ninvoked' = ninvoked + 1
    /\ text' = [text EXCEPT ![p] = s]
    /\ pc' = [pc EXCEPT ![p] = "lock"]
    /\ UNCHANGED <<env, unit, admin, clock, guardVars, posts, args, now,
                   existingPost, ret, calls, guardHistory, retry, overlapped,
                   journal>>

\* the caller has the answer of isDebounced, true or false
Done_isDebounced(p) ==
    /\ pc[p] \in {"debounced", "search"}
    /\ pc' = [pc EXCEPT ![p] = "done"]
    /\ UNCHANGED <<env, unit, admin, clock, guardVars, posts, args, now, text,
                   existingPost, ret, ninvoked, calls, guardHistory, retry,
                   overlapped, journal>>

InitMutex == InitWith({NoPosts}, {ConfiguredEnv}, NoAdmin)

NextMutex ==
    \/ \E p \in Procs, s \in MutexTexts :
          ninvoked < MaxMutexCalls /\ Call_isDebounced(p, s)
    \/ \E p \in Procs : isDebounced_Check(p)
    \/ \E p \in Procs : isDebounced_Record(p)
    \/ \E p \in Procs : Done_isDebounced(p)
    \/ SetDebounceConfig_Call
    \/ SetDebounceConfig_Lock
    \/ \E duration \in ConfigDurations, similarityThreshold \in ConfigThresholds :
          SetDebounceConfig_Write(duration, similarityThreshold)
    \/ resetDebounce_Call
    \/ resetDebounce_Lock
    \/ resetDebounce_Clear

\* the texts of direct calls under the configuration the program starts
\* with: "ab" and "ac" alike at the threshold, "xy" unlike both
DirectTexts == { <<"a", "b">>, <<"a", "c">>, <<"x", "y">> }

InitDirect == InitFrom({NoPosts})

NextDirect ==
    \/ Tick(MaxSeqElapsed)
    \/ \E p \in Procs, s \in DirectTexts :
          ninvoked < MaxSeqCalls /\ Call_isDebounced(p, s)
    \/ \E p \in Procs : isDebounced_Check(p)
    \/ \E p \in Procs : isDebounced_Record(p)
    \/ \E p \in Procs : Done_isDebounced(p)

\* calls of isDebounced by two threads as time passes, the configuration
\* never changed
SpecDirect == InitDirect /\ [][NextDirect]_vars

\* every thread keeps running: a thread waiting in debounceMutex.Lock() gets
\* the mutex in the end though others take it again and again (sync.Mutex
\* hands it to a waiter that has waited long), and the holder of the mutex
\* goes on to its deferred Unlock; when resetDebounce or SetDebounceConfig
\* is called is up to the caller
FairMutex ==
    /\ \A p \in Procs :
          /\ SF_vars(isDebounced_Check(p))
          /\ WF_vars(isDebounced_Record(p))
    /\ SF_vars(SetDebounceConfig_Lock)
    /\ WF_vars(\E duration \in ConfigDurations,
                  similarityThreshold \in ConfigThresholds :
                      SetDebounceConfig_Write(duration, similarityThreshold))
    /\ SF_vars(resetDebounce_Lock)
    /\ WF_vars(resetDebounce_Clear)

\* calls of isDebounced in parallel with calls of resetDebounce and
\* SetDebounceConfig
SpecMutex == InitMutex /\ [][NextMutex]_vars /\ FairMutex

\* the arguments sent in the behaviours of SpecLive: a text without and with
\* the confirmation, and a confirmed text unlike it
LiveArguments ==
    { [Text |-> <<"a", "b">>, ConfirmedByUser |-> FALSE],
      [Text |-> <<"a", "b">>, ConfirmedByUser |-> TRUE],
      [Text |-> <<"x", "y">>, ConfirmedByUser |-> TRUE] }

InitLive == InitFrom(InitialJournals \cup {DoubleJournal})

NextLive ==
    \/ Tick(MaxLiveElapsed)
    \/ \E p \in Procs, a \in LiveArguments :
          \E n \in InjectedTimes(clock) :
              ninvoked < MaxLiveCalls /\ Invoke(p, a, n)
    \/ \E p \in Procs : isDebounced_Check(p)
    \/ \E p \in Procs : isDebounced_Record(p)
    \/ \E p \in Procs : DuplicateError(p)
    \/ \E p \in Procs : SearchPostByCategory(p)
    \/ \E p \in Procs : CreatePost(p)
    \/ \E p \in Procs : UpdatePost(p)

\* every request worker keeps running: a worker waiting in
\* debounceMutex.Lock() gets the mutex in the end (sync.Mutex hands it to a
\* waiter that has waited long), the holder of the mutex goes on to Unlock,
\* and httpClient.Do returns, with an answer or with the error of the
\* Timeout set by NewHTTPClient
FairLive ==
    \A p \in Procs :
        /\ SF_vars(isDebounced_Check(p))
        /\ WF_vars(isDebounced_Record(p))
        /\ WF_vars(DuplicateError(p))
        /\ WF_vars(SearchPostByCategory(p))
        /\ WF_vars(CreatePost(p))
        /\ WF_vars(UpdatePost(p))

\* the host dispatches requests in parallel and every worker keeps running
SpecLive == InitLive /\ [][NextLive]_vars /\ FairLive

(***************************************************************************)
(* The utility functions, called directly as the unit tests call them      *)
(***************************************************************************)
workflowVars == <<clock, debounceMap, debounceMutex, debounceConfig, posts, pc,
                  args, now, text, existingPost, ret, ninvoked, calls,
                  lastAllowed, lastSuppressed, retry, overlapped, journal, env,
                  admin>>

\* the runes of the texts compared: a one-byte and a three-byte one
Runes == {"a", "K"}

\* the runes of the texts stripped
StripRunes == {"#", " ", "\t", "a"}

\* the strings of at most n runes over an alphabet
StringsOver(alphabet, n) == UNION {[1..k -> alphabet] : k \in 0..n}

Texts == StringsOver(Runes, MaxLen)

\* texts that start with #times-esa: followed by a short text, and twice over
TaggedTexts ==
    {TimesEsaPrefix \o rest : rest \in StringsOver({" ", "a"}, 2)}
        \cup {TimesEsaPrefix \o <<" ">> \o TimesEsaPrefix \o <<" ", "a">>}

StripTexts == StringsOver(StripRunes, MaxLen) \cup TaggedTexts

Prefixes == {<<>>, <<"#">>, <<"#", "a">>, TimesEsaPrefix}

\* times of day 0, to the second
AnchorTimes ==
    {hour * 3600 + minute * 60 + second :
        hour \in 0..23, minute \in 0..59, second \in {0, 56}}

Call_levenshteinDistance(s1, s2) ==
    /\ unit = NoUnit
    /\ unit' = [fn |-> "levenshteinDistance", s1 |-> s1, s2 |-> s2,
                out |-> levenshteinDistance(s1, s2)]
    /\ UNCHANGED workflowVars

Call_textSimilarity(s1, s2) ==
    /\ unit = NoUnit
    /\ unit' = [fn |-> "textSimilarity", s1 |-> s1, s2 |-> s2,
                out |-> textSimilarity(s1, s2)]
    /\ UNCHANGED workflowVars

\* stripPrefix applied to s, and once more to what it returned
Call_stripPrefix(s, prefix) ==
    /\ unit = NoUnit
    /\ unit' = [fn |-> "stripPrefix", s |-> s, prefix |-> prefix,
                out |-> stripPrefix(s, prefix),
                again |-> stripPrefix(stripPrefix(s, prefix), prefix)]
    /\ UNCHANGED workflowVars

Call_GenerateTimestampWithAnchor(t) ==
    /\ unit = NoUnit
    /\ unit' = [fn |-> "GenerateTimestampWithAnchor", t |-> t,
                out |-> GenerateTimestampWithAnchor(t)]
    /\ UNCHANGED workflowVars

\* what httpClient.Do returns: an error, or a response with a status and a
\* body; a body is well-formed JSON, given by the object it holds, or is not,
\* given by the error json.Decoder reports
NetworkErrors == {"network error", "context deadline exceeded"}

StatusCodes == {200, 201, 401, 500}

MalformedBodies ==
    { [wellformed |-> FALSE, syntaxError |-> "unexpected EOF"],
      [wellformed |-> FALSE,
       syntaxError |-> "invalid character 'i' looking for beginning of object key string"] }

JSONBodies ==
    { [wellformed |-> TRUE,
       object |-> [error |-> "unauthorized", message |-> "Invalid access token"]],
      [wellformed |-> TRUE, object |-> [error |-> "not_found"]],
      [wellformed |-> TRUE,
       object |-> [number |-> 123, body_md |-> "body"]],
      [wellformed |-> TRUE,
       object |-> [total_count |-> 1,
                   posts |-> <<[number |-> 123, body_md |-> "body"]>>]],
      [wellformed |-> TRUE,
       object |-> [total_count |-> 2,
                   posts |-> <<[number |-> 123, body_md |-> "body"]>>]],
      [wellformed |-> TRUE, object |-> [total_count |-> 0, posts |-> <<>>]],
      [wellformed |-> TRUE, object |-> [total_count |-> 1, posts |-> <<>>]],
      [wellformed |-> TRUE, object |-> [total_count |-> 1]] }

Responses ==
    [err : NetworkErrors]
        \cup [err : {""}, StatusCode : StatusCodes,
              Body : MalformedBodies \cup JSONBodies]

\* json.Decoder.Decode into EsaErrorResponse, EsaPost, EsaSearchResult: a
\* key the object lacks leaves the field at its zero value
DecodeErrorResponse(object) ==
    [Error |-> IF "error" \in DOMAIN object THEN object.error ELSE "",
     Message |-> IF "message" \in DOMAIN object THEN object.message ELSE ""]

DecodePost(object) ==
    [Number |-> IF "number" \in DOMAIN object THEN object.number ELSE 0,
     BodyMd |-> IF "body_md" \in DOMAIN object THEN object.body_md ELSE ""]

DecodeSearchResult(object) ==
    [TotalCount |-> IF "total_count" \in DOMAIN object THEN object.total_count
                    ELSE 0,
     Posts |-> IF "posts" \in DOMAIN object
               THEN [i \in DOMAIN object.posts |-> DecodePost(object.posts[i])]
               ELSE <<>>]

\* return nil, err
ReturnNil(err) == [isNil |-> TRUE, err |-> err]

\* return &value, nil
ReturnValue(value) == [isNil |-> FALSE, value |-> value, err |-> ""]

ErrErrorResponseParse(err) == "error response no kaiseki ni shippai: " \o err

ErrSearchResultParse(err) == "kensaku kekka no kaiseki ni shippai: " \o err

ErrPostParse(err) == "toukou no kaiseki ni shippai: " \o err

\* part_014 185-191, 255-261, 320-326: the status is not the expected one
ErrorFromResponse(resp) ==
    IF ~resp.Body.wellformed
    THEN ReturnNil(ErrErrorResponseParse(resp.Body.syntaxError))
    ELSE LET errorResp == DecodeErrorResponse(resp.Body.object)
         IN  ReturnNil(errorResp.Error \o ": " \o errorResp.Message)

\* part_014 177-199: EsaClient.Search from httpClient.Do on
Search(resp) ==
    IF resp.err # "" THEN ReturnNil(resp.err)
    ELSE IF resp.StatusCode # 200 THEN ErrorFromResponse(resp)
    ELSE IF ~resp.Body.wellformed
    THEN ReturnNil(ErrSearchResultParse(resp.Body.syntaxError))
    ELSE ReturnValue(DecodeSearchResult(resp.Body.object))

\* variant: CreatePost takes 200 for its success status
CreatePost_ExpectingOK(resp) ==
    IF resp.err # "" THEN ReturnNil(resp.err)
    ELSE IF resp.StatusCode # 200 THEN ErrorFromResponse(resp)
    ELSE IF ~resp.Body.wellformed
    THEN ReturnNil(ErrPostParse(resp.Body.syntaxError))
    ELSE ReturnValue(DecodePost(resp.Body.object))

\* part_014 247-268: EsaClient.CreatePost from httpClient.Do on
CreatePost_Response(resp) ==
    IF resp.err # "" THEN ReturnNil(resp.err)
    ELSE IF resp.StatusCode # 201 THEN ErrorFromResponse(resp)
    ELSE IF ~resp.Body.wellformed
    THEN ReturnNil(ErrPostParse(resp.Body.syntaxError))
    ELSE ReturnValue(DecodePost(resp.Body.object))

\* part_014 312-334: EsaClient.UpdatePost from httpClient.Do on
UpdatePost_Response(resp) ==
    IF resp.err # "" THEN ReturnNil(resp.err)
    ELSE IF resp.StatusCode # 200 THEN ErrorFromResponse(resp)
    ELSE IF ~resp.Body.wellformed
    THEN ReturnNil(ErrPostParse(resp.Body.syntaxError))
    ELSE ReturnValue(DecodePost(resp.Body.object))

Call_Search(resp) ==
    /\ unit = NoUnit
    /\ unit' = [fn |-> "Search", resp |-> resp, out |-> Search(resp)]
    /\ UNCHANGED workflowVars

Call_CreatePost(resp) ==
    /\ unit = NoUnit
    /\ unit' = [fn |-> "CreatePost", resp |-> resp,
                out |-> CreatePost_Response(resp)]
    /\ UNCHANGED workflowVars

Call_UpdatePost(resp) ==
    /\ unit = NoUnit
    /\ unit' = [fn |-> "UpdatePost", resp |-> resp,
                out |-> UpdatePost_Response(resp)]
    /\ UNCHANGED workflowVars

\* a run-time panic: the call does not return
Panic(message) == [panic |-> message]

\* part_014 93-114: EsaClient.SearchPostByCategory from httpClient.Do on;
\* result.Posts[0] is an index expression on a slice, which panics when the
\* slice is empty
SearchPostByCategory_Response(resp) ==
    LET result == Search(resp)
    IN  IF result.err # "" THEN ReturnNil(result.err)
        ELSE IF result.value.TotalCount = 0 THEN ReturnNil("")
        ELSE IF result.value.TotalCount > 1 THEN ReturnNil(ErrMultiplePosts)
        ELSE IF Len(result.value.Posts) = 0
        THEN Panic("runtime error: index out of range [0] with length 0")
        ELSE ReturnValue(result.value.Posts[1])

Call_SearchPostByCategory(resp) ==
    /\ unit = NoUnit
    /\ unit' = [fn |-> "SearchPostByCategory", resp |-> resp,
                out |-> SearchPostByCategory_Response(resp)]
    /\ UNCHANGED workflowVars

\* part_014 119-124: the configuration Search starts from
DefaultSearchConfig ==
    [query |-> "", categoryQuery |-> "", page |-> 1, perPage |-> 20,
     sort |-> "updated", order |-> "desc"]

\* if c.query != "" { c.query += " " }; c.query += term
AppendTerm(query, term) ==
    IF query # "" THEN query \o " " \o term ELSE term

RECURSIVE AppendTerms(_, _)
AppendTerms(query, terms) ==
    IF terms = <<>> THEN query
    ELSE AppendTerms(AppendTerm(query, Head(terms)), Tail(terms))

\* fmt.Sprintf("%t", b)
FormatBool(b) == IF b THEN "true" ELSE "false"

\* part_014 371-375
WithCategory(category, c) ==
    [c EXCEPT !.categoryQuery = "category:" \o category]

\* part_014 378-382
WithCategoryExact(category, c) ==
    [c EXCEPT !.categoryQuery = "on:" \o category]

\* part_014 385-389
WithCategoryPrefix(category, c) ==
    [c EXCEPT !.categoryQuery = "in:" \o category]

\* part_014 392-401
WithTags(tags, c) ==
    [c EXCEPT !.query =
        AppendTerms(c.query, [i \in DOMAIN tags |-> "tag:" \o tags[i]])]

\* part_014 404-413
WithKeywords(keywords, c) ==
    [c EXCEPT !.query = AppendTerms(c.query, keywords)]

\* part_014 416-423
WithUser(screenName, c) ==
    [c EXCEPT !.query = AppendTerm(c.query, "user:" \o screenName)]

\* part_014 426-441; a zero time is written ""
WithDateRange(field, from, to, c) ==
    LET afterFrom == IF from # "" THEN AppendTerm(c.query, field \o ":>" \o from)
                     ELSE c.query
    IN  [c EXCEPT !.query =
            IF to # "" THEN AppendTerm(afterFrom, field \o ":<" \o to)
            ELSE afterFrom]

\* part_014 444-451
WithWIP(wip, c) ==
    [c EXCEPT !.query = AppendTerm(c.query, "wip:" \o FormatBool(wip))]

\* part_014 454-461
WithStarred(starred, c) ==
    [c EXCEPT !.query = AppendTerm(c.query, "starred:" \o FormatBool(starred))]

\* part_014 464-469
WithPagination(page, perPage, c) ==
    [c EXCEPT !.page = page, !.perPage = perPage]

\* the options the tests construct
SearchOptions ==
    { [opt |-> "WithCategory", category |-> "nippo"],
      [opt |-> "WithCategoryExact", category |-> "nippo/2024/12/20"],
      [opt |-> "WithCategoryPrefix", category |-> "nippo/2024"],
      [opt |-> "WithTags", tags |-> <<"golang">>],
      [opt |-> "WithKeywords", keywords |-> <<"MCP", "saabaa">>],
      [opt |-> "WithUser", screenName |-> "test_user"],
      [opt |-> "WithDateRange", field |-> "created", from |-> "2025-05-01",
       to |-> ""],
      [opt |-> "WithWIP", wip |-> FALSE],
      [opt |-> "WithStarred", starred |-> TRUE],
      [opt |-> "WithPagination", page |-> 1, perPage |-> 1] }

\* opt(config)
ApplyOption(o, c) ==
    CASE o.opt = "WithCategory" -> WithCategory(o.category, c)
      [] o.opt = "WithCategoryExact" -> WithCategoryExact(o.category, c)
      [] o.opt = "WithCategoryPrefix" -> WithCategoryPrefix(o.category, c)
      [] o.opt = "WithTags" -> WithTags(o.tags, c)
      [] o.opt = "WithKeywords" -> WithKeywords(o.keywords, c)
      [] o.opt = "WithUser" -> WithUser(o.screenName, c)
      [] o.opt = "WithDateRange" -> WithDateRange(o.field, o.from, o.to, c)
      [] o.opt = "WithWIP" -> WithWIP(o.wip, c)
      [] o.opt = "WithStarred" -> WithStarred(o.starred, c)
      [] o.opt = "WithPagination" -> WithPagination(o.page, o.perPage, c)

\* part_014 127-129: for _, opt := range options { opt(config) }
RECURSIVE ApplyOptions(_, _)
ApplyOptions(options, c) ==
    IF options = <<>> THEN c
    ELSE ApplyOptions(Tail(options), ApplyOption(Head(options), c))

\* part_014 137-147: the parameter q of the request; no parameter when
\* both parts are empty
Search_q(config) ==
    LET queryParts ==
            (IF config.categoryQuery # "" THEN <<config.categoryQuery>> ELSE <<>>)
                \o (IF config.query # "" THEN <<config.query>> ELSE <<>>)
    IN  IF Len(queryParts) = 0 THEN [present |-> FALSE, value |-> ""]
        ELSE IF Len(queryParts) = 1
        THEN [present |-> TRUE, value |-> queryParts[1]]
        ELSE [present |-> TRUE, value |-> queryParts[1] \o " " \o queryParts[2]]

\* the last case of TestSearch_QueryConstruction
CombinedOptions ==
    << [opt |-> "WithCategory", category |-> "nippo"],
       [opt |-> "WithTags", tags |-> <<"golang">>],
       [opt |-> "WithUser", screenName |-> "test_user"],
       [opt |-> "WithWIP", wip |-> FALSE],
       [opt |-> "WithKeywords", keywords |-> <<"MCP", "saabaa">>] >>

OptionLists ==
    UNION {[1..n -> SearchOptions] : n \in 1..MaxOptions}
        \cup {CombinedOptions}

\* options applied to a fresh configuration, and the q Search would send
Call_ApplyOptions(options) ==
    /\ unit = NoUnit
    /\ unit' = [fn |-> "searchConfig", options |-> options,
                config |-> ApplyOptions(options, DefaultSearchConfig),
                q |-> Search_q(ApplyOptions(options, DefaultSearchConfig))]
    /\ UNCHANGED workflowVars

\* the caller has looked at the result
Return ==
    /\ unit # NoUnit
    /\ unit' = NoUnit
    /\ UNCHANGED workflowVars

InitPure == InitFrom({NoPosts})

NextPure ==
    \/ \E s1 \in Texts, s2 \in Texts : Call_levenshteinDistance(s1, s2)
    \/ \E s1 \in Texts, s2 \in Texts : Call_textSimilarity(s1, s2)
    \/ \E s \in StripTexts, prefix \in Prefixes : Call_stripPrefix(s, prefix)
    \/ \E t \in AnchorTimes : Call_GenerateTimestampWithAnchor(t)
    \/ \E resp \in Responses : Call_Search(resp)
    \/ \E resp \in Responses : Call_CreatePost(resp)
    \/ \E resp \in Responses : Call_UpdatePost(resp)
    \/ \E resp \in Responses : Call_SearchPostByCategory(resp)
    \/ \E options \in OptionLists : Call_ApplyOptions(options)
    \/ Return

\* one direct call after the other
SpecPure == InitPure /\ [][NextPure]_vars

(***************************************************************************)
(* Properties                                                              *)
(***************************************************************************)
\* two texts the guard is specified to treat as one: equal, or both longer
\* than one code point and at least SimilarityThreshold alike
SameOrSimilar(a, b) ==
    \/ a = b
    \/ /\ Len(a) > 1
       /\ Len(b) > 1
       /\ SimilarityAtLeast(textSimilarity(a, b),
                            debounceConfig.SimilarityThreshold)

\* in this step invocation p leaves isDebounced's check (utils.go 141-170)
ChecksNow(p) == pc[p] = "lock" /\ pc'[p] # "lock"

\* in this step isDebounced returns false to invocation p
AllowedNow(p) == pc[p] = "record" /\ pc'[p] = "search"

\* in this step the call of invocation p arrives
InvokedNow(p) ==
    /\ ninvoked' = ninvoked + 1
    /\ ~Running(p)
    /\ \A q \in Procs : q < p => Running(q)

\* no text that was allowed less than one window ago is the same as or
\* similar to s
NoneAllowedWithinWindow(s) ==
    \A k \in DOMAIN lastAllowed :
        SameOrSimilar(k, s) => clock - lastAllowed[k] >= debounceConfig.Duration

\* C1: whenever isDebounced returns false for a text, under any interleaving
\* of the workers, every earlier call that returned false for the same or a
\* similar text did so at least one window before: of the calls with equal or
\* similar texts made within one window, at most one is allowed.
C1_OneAllowedPerWindow ==
    [][\A p \in Procs : AllowedNow(p) => NoneAllowedWithinWindow(text[p])]_vars

\* two workers were inside isDebounced with the same or similar texts at the
\* same time; one was allowed and the other one suppressed
C1_Witness ==
    \E p, q \in Procs :
        /\ p # q
        /\ pc[p] = "search"
        /\ pc[q] = "debounced"
        /\ text[p] # text[q]
        /\ SameOrSimilar(text[p], text[q])
        /\ lastAllowed[text[p]] = clock

\* the text with which post n was created, <<>> for a post of the start
CreatedWith(n) ==
    IF journal[n].subs = <<>> THEN <<>> ELSE journal[n].subs[1].text

\* C2: whatever the interleaving of the invocations of one day whose texts
\* are dissimilar, the journal holds at most one post per category: no two
\* posts, each filed under the category its invocation had searched and
\* created with dissimilar texts, have the same category.
C2_OnePostPerDay ==
    \A n, m \in DOMAIN posts :
        /\ posts[n].Category = posts[m].Category
        /\ journal[n].searched = posts[n].Category
        /\ journal[m].searched = posts[m].Category
        /\ ~SameOrSimilar(CreatedWith(n), CreatedWith(m))
        => n = m

\* the client calls of the invocation are a search, then, if the search
\* returned, the one write that its result asks for
CallsInOrder(p) ==
    /\ Len(calls[p]) <= 2
    /\ Len(calls[p]) >= 1 => calls[p][1].op = "search"
    /\ Len(calls[p]) = 2 =>
          /\ calls[p][1].ok
          /\ calls[p][2].op \in {"create", "update"}
          /\ calls[p][2].op = "create" <=> calls[p][1].n = 0
          /\ calls[p][2].op = "update" => calls[p][2].n = calls[p][1].n

SucceededAt(p) == pc[p] = "done" /\ ret[p].result.Success

\* C3: an invocation never calls the client but for one search and then one
\* write, CreatePost when the search returned no post and UpdatePost on the
\* returned post otherwise; a successful invocation has made both calls.
C3_SearchThenOneWrite ==
    \A p \in Procs :
        /\ CallsInOrder(p)
        /\ SucceededAt(p) =>
              /\ Len(calls[p]) = 2
              /\ calls[p][2].ok
              /\ ret[p].result.Post.Number = calls[p][2].n

\* one invocation succeeded by creating the post and another one by
\* updating that post
C3_Witness ==
    \E p, q \in Procs :
        /\ SucceededAt(p)
        /\ SucceededAt(q)
        /\ calls[p][2].op = "create"
        /\ calls[q][2].op = "update"
        /\ calls[q][2].n = calls[p][2].n

\* in this step the service answers the search of invocation p
SearchAnsweredNow(p) ==
    /\ pc[p] = "search"
    /\ pc'[p] # "search"
    /\ ret'[p].err # ErrSearchFailed(RemoteFailure)

\* C4: when the service answers the search, no match gives no post and no
\* error (the workflow goes on to create), exactly one match gives that post
\* (the workflow goes on to update it), more than one gives the error of
\* several posts, no post, and the workflow ends without create or update.
C4_SearchByCount ==
    [][\A p \in Procs : SearchAnsweredNow(p) =>
          LET listed == Matching(Category(now[p]))
          IN  /\ listed = {} =>
                    /\ pc'[p] = "create"
                    /\ existingPost'[p] = NoPost
                    /\ ret'[p].err = ""
              /\ Cardinality(listed) = 1 =>
                    /\ pc'[p] = "update"
                    /\ \E n \in listed : existingPost'[p] = EsaPost(n)
                    /\ ret'[p].err = ""
              /\ Cardinality(listed) > 1 =>
                    /\ pc'[p] = "done"
                    /\ ret'[p] = [result |-> NilResult,
                                  err |-> ErrSearchFailed(ErrMultiplePosts)]
                    /\ existingPost'[p] = NoPost
                    /\ Len(calls'[p]) = 1
                    /\ posts' = posts]_vars

\* an invocation ended on the error of several posts
C4_Witness ==
    \E p \in Procs :
        /\ pc[p] = "done"
        /\ ret[p].err = ErrSearchFailed(ErrMultiplePosts)
        /\ Cardinality(Matching(Category(clock))) = 2

\* C5: isDebounced on a text that is the key of an entry younger than the
\* window returns true and leaves the map as it is.
C5_ExactSuppressed ==
    [][\A p \in Procs :
          /\ ChecksNow(p)
          /\ text[p] \in DOMAIN debounceMap
          /\ clock - debounceMap[text[p]].timestamp < debounceConfig.Duration
          => /\ pc'[p] = "debounced"
             /\ debounceMap' = debounceMap]_vars

\* a call was suppressed while the entry of its own text was one second old
C5_Witness ==
    \E p \in Procs :
        /\ pc[p] = "debounced"
        /\ text[p] \in DOMAIN debounceMap
        /\ lastSuppressed[text[p]] = debounceMap[text[p]].timestamp + 1

\* C6: isDebounced on a text longer than one character returns true and
\* leaves the map as it is whenever an entry younger than the window, whose
\* text is longer than one character, is at least SimilarityThreshold alike.
C6_SimilarSuppressed ==
    [][\A p \in Procs :
          /\ ChecksNow(p)
          /\ Len(text[p]) > 1
          /\ \E k \in DOMAIN debounceMap :
                /\ clock - debounceMap[k].timestamp < debounceConfig.Duration
                /\ Len(k) > 1
                /\ k # text[p]
                /\ SimilarityAtLeast(textSimilarity(text[p], k),
                                     debounceConfig.SimilarityThreshold)
          => /\ pc'[p] = "debounced"
             /\ debounceMap' = debounceMap]_vars

\* a call was suppressed though the map has no entry of its text, only a
\* live one of a similar text
C6_Witness ==
    \E p \in Procs :
        /\ pc[p] = "debounced"
        /\ text[p] \notin DOMAIN debounceMap
        /\ lastSuppressed[text[p]] = clock
        /\ \E k \in DOMAIN debounceMap :
              /\ clock - debounceMap[k].timestamp < debounceConfig.Duration
              /\ SameOrSimilar(k, text[p])

\* C7: a call of isDebounced with a text none of whose equal or similar
\* texts was accepted less than one window ago is allowed, however many
\* calls were suppressed in between; and a suppressed call changes no entry,
\* so no seenAt is refreshed.
C7_AllowedAfterWindow ==
    [][\A p \in Procs : ChecksNow(p) =>
          /\ text[p] # <<>> /\ NoneAllowedWithinWindow(text[p])
                => pc'[p] = "record"
          /\ pc'[p] = "debounced" => debounceMap' = debounceMap]_vars

\* a text is allowed exactly one window after it was accepted, though a call
\* with it was suppressed in between
C7_Witness ==
    \E p \in Procs :
        /\ pc[p] = "record"
        /\ text[p] \in DOMAIN lastAllowed
        /\ text[p] \in DOMAIN lastSuppressed
        /\ lastAllowed[text[p]] < lastSuppressed[text[p]]
        /\ clock = lastAllowed[text[p]] + debounceConfig.Duration

\* C8: an invocation with a text and confirmed_by_user false returns the
\* confirmation error and no result, changes neither the debounce map nor
\* the journal and calls the client not at all; the invocation that follows
\* it with the same text and confirmed_by_user true is suppressed only if a
\* call accepted less than one window ago had the same or a similar text,
\* and once allowed goes on to the search.
C8_ConfirmationFirst ==
    [][\A p \in Procs :
          /\ InvokedNow(p) /\ args'[p].Text # <<>> /\ ~args'[p].ConfirmedByUser
                => /\ pc'[p] = "done"
                   /\ ret'[p] = [result |-> NilResult,
                                 err |-> ErrConfirmationRequired]
                   /\ calls'[p] = <<>>
                   /\ debounceMap' = debounceMap
                   /\ lastAllowed' = lastAllowed
                   /\ posts' = posts
          /\ retry[p] /\ ChecksNow(p) /\ text[p] # <<>>
                      /\ NoneAllowedWithinWindow(text[p])
                => pc'[p] = "record"
          /\ retry[p] /\ pc[p] = "record" /\ pc'[p] # "record"
                => pc'[p] = "search"]_vars

\* the invocation that followed an unconfirmed one with the same text has
\* passed the guard and stands before the search
C8_Witness ==
    \E p \in Procs :
        /\ retry[p]
        /\ pc[p] = "search"
        /\ calls[p] = <<>>
        /\ lastAllowed[text[p]] = now[p]

\* C9: an invocation with an empty text returns the error of the empty text
\* and no result, whatever confirmed_by_user is, changes neither the
\* debounce map nor the journal and calls the client not at all.
C9_EmptyTextRejected ==
    [][\A p \in Procs :
          InvokedNow(p) /\ args'[p].Text = <<>>
          => /\ pc'[p] = "done"
             /\ ret'[p] = [result |-> NilResult, err |-> ErrEmptyText]
             /\ calls'[p] = <<>>
             /\ debounceMap' = debounceMap
             /\ lastAllowed' = lastAllowed
             /\ posts' = posts]_vars

\* an invocation with an empty text and confirmed_by_user false has returned
\* the error of the empty text
C9_Witness ==
    \E p \in Procs :
        /\ pc[p] = "done"
        /\ args[p] = [Text |-> <<>>, ConfirmedByUser |-> FALSE]
        /\ ret[p].err = ErrEmptyText

\* the block of one submission: anchor, space, text, blank line, rule
Block(sub) ==
    GenerateTimestampWithAnchor(sub.hhmm * 60) \o " " \o Str(sub.text)
        \o "\n\n---"

\* the blocks of subs, the last one first, on top of the body base
RECURSIVE BlocksOnTop(_, _)
BlocksOnTop(base, subs) ==
    IF subs = <<>> THEN base
    ELSE LET rest == SubSeq(subs, 1, Len(subs) - 1)
         IN  IF rest = <<>> /\ base = ""
             THEN Block(subs[Len(subs)])
             ELSE Block(subs[Len(subs)]) \o "\n\n" \o BlocksOnTop(base, rest)

\* C10: the body of a post written by invocations that did not overlap is
\* the blocks of its submissions in reverse order of submission, each
\* followed by a blank line, on top of the body the post had before.
C10_NewestFirst ==
    \A n \in DOMAIN posts :
        ~journal[n].raced =>
            posts[n].BodyMd = BlocksOnTop(journal[n].base, journal[n].subs)

\* a post created and then appended to twice
C10_Witness ==
    \E n \in DOMAIN posts :
        /\ ~journal[n].raced
        /\ journal[n].base = ""
        /\ Len(journal[n].subs) = 3

\* the sequences that hold the elements of subs in some order
Orderings(subs) ==
    {[i \in 1..Len(subs) |-> subs[f[i]]] : f \in Permutations(1..Len(subs))}

\* C11: when two invocations with dissimilar texts have run against a post
\* that was there before and both have returned success, the body of the
\* post is made of the blocks of both, in some order, on top of the complete
\* body it had before: neither submission has been overwritten.
C11_NoLostUpdate ==
    (/\ \A p \in Procs : SucceededAt(p)
     /\ ~SameOrSimilar(text[1], text[2])
     /\ calls[1][2].op = "update"
     /\ calls[2][2].op = "update")
    => \A n \in DOMAIN posts :
          journal[n].base # "" =>
              \E order \in Orderings(journal[n].subs) :
                  posts[n].BodyMd = BlocksOnTop(journal[n].base, order)

\* in this step a client call of invocation p fails and the invocation
\* returns
RemoteStepFailsNow(p) ==
    /\ pc[p] \in {"search", "create", "update"}
    /\ pc'[p] = "done"
    /\ ret'[p].err # ""

\* C12: when the search, the create or the update of an invocation fails,
\* the debounce map stays as it is and still holds the entry made when the
\* text was allowed; a call of isDebounced with a text that was allowed less
\* than one window ago returns true, and the invocation then returns the
\* duplicate error.
C12_AllowanceIsFinal ==
    [][\A p \in Procs :
          /\ RemoteStepFailsNow(p)
                => /\ debounceMap' = debounceMap
                   /\ text[p] \in DOMAIN debounceMap
                   /\ debounceMap[text[p]].timestamp = lastAllowed[text[p]]
          /\ ChecksNow(p) /\ text[p] \in DOMAIN lastAllowed
                          /\ clock - lastAllowed[text[p]] < debounceConfig.Duration
                => pc'[p] = "debounced"
          /\ pc[p] = "debounced" /\ pc'[p] # "debounced"
                => ret'[p] = [result |-> NilResult,
                              err |-> ErrDebounced(debounceConfig.Duration)]]_vars

\* a text was allowed, its invocation failed before anything was written,
\* and the retry within the window has returned the duplicate error
C12_Witness ==
    \E p \in Procs :
        /\ pc[p] = "done"
        /\ ret[p].err = ErrDebounced(debounceConfig.Duration)
        /\ text[p] \in DOMAIN lastAllowed
        /\ clock - lastAllowed[text[p]] < debounceConfig.Duration
        /\ posts = NoPosts

\* C13: every post the workflow created is filed under the category that
\* its invocation had searched, the one derived from the now parameter.
C13_CreatedUnderSearchedCategory ==
    \A n \in DOMAIN posts : posts[n].Category = journal[n].searched

\* C14: what an invocation writes is determined by its text, its now
\* parameter and the remote state it read: the body of a created post is
\* the block of the text at the time of now, the body of an updated post is
\* that block on top of the body the search returned.
C14_WritesFollowInputs ==
    [][\A p \in Procs :
          /\ pc[p] = "create" /\ posts' # posts
                => \E n \in DOMAIN posts' \ DOMAIN posts :
                      posts'[n].BodyMd = CreateBody(now[p], text[p])
          /\ pc[p] = "update" /\ posts' # posts
                => posts'[existingPost[p].Number].BodyMd =
                      UpdateBody(now[p], text[p], existingPost[p].BodyMd)]_vars

\* C15: isDebounced returns true for a text only if the map holds a live
\* entry of exactly that text, or the text and the text of some live entry
\* are both longer than one character and at least SimilarityThreshold
\* alike: a text of one character, of whatever byte length, is neither
\* suppressed by similarity nor does its entry suppress another text.
C15_OneCharacterExempt ==
    [][\A p \in Procs :
          ChecksNow(p) /\ pc'[p] = "debounced" /\ text[p] # <<>>
          => \/ /\ text[p] \in DOMAIN debounceMap
                /\ clock - debounceMap[text[p]].timestamp < debounceConfig.Duration
             \/ /\ Len(text[p]) > 1
                /\ \E k \in DOMAIN debounceMap :
                      /\ Len(k) > 1
                      /\ clock - debounceMap[k].timestamp < debounceConfig.Duration
                      /\ SimilarityAtLeast(textSimilarity(text[p], k),
                                           debounceConfig.SimilarityThreshold)]_vars

\* no entry of the map is older than twice the window
NoneOlderThanTwoWindows(map) ==
    \A k \in DOMAIN map : clock - map[k].timestamp <= 2 * debounceConfig.Duration

\* C16 (as the code has it): when isDebounced returns false, the map it
\* leaves holds no entry older than twice the window, and holds every entry
\* it held before that is not older.
C16_PurgedWhenAllowed ==
    [][\A p \in Procs : AllowedNow(p) =>
          /\ NoneOlderThanTwoWindows(debounceMap')
          /\ \A k \in DOMAIN debounceMap :
                clock - debounceMap[k].timestamp <= 2 * debounceConfig.Duration
                => k \in DOMAIN debounceMap']_vars

\* a call was allowed and the entry of a text accepted earlier is gone
C16_Witness ==
    \E p \in Procs :
        /\ pc[p] = "search"
        /\ lastAllowed[text[p]] = clock
        /\ \E k \in DOMAIN lastAllowed :
              /\ k \notin DOMAIN debounceMap
              /\ clock - lastAllowed[k] > 2 * debounceConfig.Duration

\* C16 (as stated): whenever a call of isDebounced completes, with true or
\* with false, the map holds no entry older than twice the window.
C16_NoOldEntryAfterCall ==
    [][\A p \in Procs :
          (ChecksNow(p) /\ pc'[p] = "debounced") \/ AllowedNow(p)
          => NoneOlderThanTwoWindows(debounceMap')]_vars

\* C17: the handler reads the window for the duplicate message only while
\* no other thread holds debounceMutex, so that the read never coincides
\* with an access another thread makes under the mutex.
C17_WindowReadExcludesWriters ==
    [][\A p \in Procs :
          pc[p] = "debounced" /\ pc'[p] = "done"
          => debounceMutex \in {0, p}]_vars

\* the prefix the handler puts before the error of a client call
StepPrefix(op) ==
    IF op = "search" THEN "toukou no kensaku ni shippai shimashita: "
    ELSE IF op = "create" THEN "shinki toukou no sakusei ni shippai shimashita: "
    ELSE "toukou no koushin ni shippai shimashita: "

\* C18: once a client call of an invocation has returned an error, the
\* invocation has returned: it made no call after the failed one, and it
\* returned no result and the error made of the prefix of the failed step
\* followed by the error of the client, unchanged.
C18_RemoteErrorsWrapped ==
    \A p \in Procs :
        \A i \in 1..Len(calls[p]) :
            calls[p][i].err # "" =>
                /\ i = Len(calls[p])
                /\ pc[p] = "done"
                /\ ret[p] = [result |-> NilResult,
                             err |-> StepPrefix(calls[p][i].op) \o calls[p][i].err]

\* the search of an invocation failed in the service and the invocation
\* returned after this one call
C18_Witness ==
    \E p \in Procs :
        /\ calls[p] = <<Call("search", 0, RemoteFailure)>>
        /\ pc[p] = "done"
        /\ ret[p].err = "toukou no kensaku ni shippai shimashita: " \o RemoteFailure

\* C19: a call of isDebounced that returns true ends the invocation: it
\* returns the duplicate error with the window in seconds and no result,
\* has called the client not at all, and the journal is as it was.
C19_SuppressedMakesNoCall ==
    [][\A p \in Procs :
          /\ ChecksNow(p) /\ pc'[p] = "debounced"
                => posts' = posts /\ calls'[p] = <<>>
          /\ pc[p] = "debounced" /\ pc'[p] # "debounced"
                => /\ pc'[p] = "done"
                   /\ ret'[p] = [result |-> NilResult,
                                 err |-> ErrDebounced(debounceConfig.Duration)]
                   /\ calls'[p] = <<>>
                   /\ posts' = posts]_vars

\* an invocation whose text is similar to a text accepted within the window
\* has returned the duplicate error without a client call
C19_Witness ==
    \E p \in Procs :
        /\ pc[p] = "done"
        /\ ret[p].err = ErrDebounced(debounceConfig.Duration)
        /\ calls[p] = <<>>
        /\ text[p] \notin DOMAIN debounceMap
        /\ text[p] \in DOMAIN lastSuppressed

\* C20: an invocation that returns does so either with a success response
\* that carries the post as it was created or updated, or with an error and
\* no response, and then its write, if it came to one, has left the journal
\* as it was.
C20_NoPartialSuccess ==
    [][\A p \in Procs :
          Running(p) /\ pc'[p] = "done"
          => \/ /\ ret'[p].err = ""
                /\ ret'[p].result.Success
                /\ ret'[p].result.Post.Number \in DOMAIN posts'
                /\ ret'[p].result.Post.BodyMd =
                      posts'[ret'[p].result.Post.Number].BodyMd
             \/ /\ ret'[p].err # ""
                /\ ret'[p].result = NilResult
                /\ posts' = posts]_vars

\* the texts one single-rune insertion, deletion or substitution away from x
Edits(x) ==
    {SubSeq(x, 1, i - 1) \o SubSeq(x, i + 1, Len(x)) : i \in 1..Len(x)}
        \cup {SubSeq(x, 1, i - 1) \o <<r>> \o SubSeq(x, i + 1, Len(x)) :
                 i \in 1..Len(x), r \in Runes}
        \cup {SubSeq(x, 1, i) \o <<r>> \o SubSeq(x, i + 1, Len(x)) :
                 i \in 0..Len(x), r \in Runes}

\* the texts at most k such edits away from a
RECURSIVE Within(_, _)
Within(a, k) ==
    IF k = 0 THEN {a}
    ELSE LET nearer == Within(a, k - 1)
         IN  nearer \cup UNION {Edits(x) : x \in nearer}

\* the least number of edits that turn a into b
EditDistance(a, b) ==
    CHOOSE k \in 0..Max2(Len(a), Len(b)) :
        /\ b \in Within(a, k)
        /\ k > 0 => b \notin Within(a, k - 1)

\* C21: levenshteinDistance(a, b) is the least number of single-code-point
\* insertions, deletions and substitutions that turn a into b, a multi-byte
\* character counting as one; distance(a, a) = 0 and distance("", s) is the
\* number of code points of s
C21_DistanceIsMinimalEdits ==
    unit.fn = "levenshteinDistance" =>
        /\ unit.out = EditDistance(unit.s1, unit.s2)
        /\ unit.s1 = unit.s2 => unit.out = 0
        /\ unit.s1 = <<>> => unit.out = Len(unit.s2)

C21_Witness ==
    /\ unit.fn = "levenshteinDistance"
    /\ unit.s1 = <<"a", "K", "a">>
    /\ unit.s2 = <<"K", "a", "K">>
    /\ unit.out = 2

\* C22: levenshteinDistance is symmetric: distance(a, b) = distance(b, a)
C22_DistanceSymmetric ==
    unit.fn = "levenshteinDistance" =>
        unit.out = levenshteinDistance(unit.s2, unit.s1)

C22_Witness ==
    /\ unit.fn = "levenshteinDistance"
    /\ unit.s1 = <<"a">>
    /\ unit.s2 = <<"a", "K", "K">>
    /\ unit.out = 2

\* C23: textSimilarity(a, b) lies in [0, 1]; it is 1 when a = b, 0 when
\* exactly one of them is empty, and otherwise 1 - distance / max(len(a),
\* len(b)) with the lengths in code points, which is 0 when the distance
\* reaches that maximum
C23_SimilarityByCases ==
    unit.fn = "textSimilarity" =>
        LET numerator == unit.out[1]
            denominator == unit.out[2]
            distance == levenshteinDistance(unit.s1, unit.s2)
            longer == Max2(Len(unit.s1), Len(unit.s2))
        IN  /\ denominator > 0
            /\ 0 <= numerator
            /\ numerator <= denominator
            /\ unit.s1 = unit.s2 => numerator = denominator
            /\ unit.s1 # unit.s2 /\ (unit.s1 = <<>> \/ unit.s2 = <<>>)
                   => numerator = 0
            /\ unit.s1 # unit.s2 /\ unit.s1 # <<>> /\ unit.s2 # <<>>
                   => IF distance >= longer THEN numerator = 0
                      ELSE numerator * longer = (longer - distance) * denominator

C23_Witness ==
    /\ unit.fn = "textSimilarity"
    /\ unit.s1 = <<"K", "a", "K">>
    /\ unit.s2 = <<"K", "K">>
    /\ unit.out[1] * 3 = 2 * unit.out[2]

\* s begins with p, rune by rune
BeginsWith(s, p) ==
    /\ Len(p) <= Len(s)
    /\ \A i \in 1..Len(p) : s[i] = p[i]

\* C24: stripPrefix(s, p) returns s when s does not start with p; when it
\* does, it returns s without that leading p and without the contiguous
\* white space right after it, everything after that kept as it is
C24_StripsPrefixAndSpace ==
    unit.fn = "stripPrefix" =>
        IF ~BeginsWith(unit.s, unit.prefix) THEN unit.out = unit.s
        ELSE \E k \in 0..(Len(unit.s) - Len(unit.prefix)) :
                /\ \A i \in 1..k :
                      unit.s[Len(unit.prefix) + i] \in WhiteSpaceRunes
                /\ Len(unit.prefix) + k < Len(unit.s)
                      => unit.s[Len(unit.prefix) + k + 1] \notin WhiteSpaceRunes
                /\ unit.out = SubSeq(unit.s, Len(unit.prefix) + k + 1,
                                     Len(unit.s))

C24_Witness ==
    /\ unit.fn = "stripPrefix"
    /\ unit.prefix = TimesEsaPrefix
    /\ unit.s = TimesEsaPrefix \o <<" ">> \o TimesEsaPrefix \o <<" ", "a">>
    /\ unit.out = TimesEsaPrefix \o <<" ", "a">>

\* C25 as stated: stripping the prefix from a stripped text changes nothing
C25_Idempotent ==
    unit.fn = "stripPrefix" => unit.again = unit.out

\* C25: stripping the prefix from a stripped text changes nothing exactly
\* when the prefix is empty or the stripped text does not begin with it
C25_IdempotentUnlessPrefixRemains ==
    unit.fn = "stripPrefix" =>
        (unit.again = unit.out
            <=> (unit.prefix = <<>> \/ ~BeginsWith(unit.out, unit.prefix)))

C25_Witness ==
    /\ unit.fn = "stripPrefix"
    /\ unit.prefix = <<"#">>
    /\ unit.s = <<"#", " ", "a">>
    /\ unit.out = <<"a">>
    /\ unit.again = <<"a">>

Digits == <<"0", "1", "2", "3", "4", "5", "6", "7", "8", "9">>

\* n < 100 in two decimal digits
TwoDigits(n) == Digits[(n \div 10) + 1] \o Digits[(n % 10) + 1]

\* C26: the anchor of t is <a id="HHMM" href="#HHMM">HH:MM</a> with the
\* zero-padded 24-hour hour and the minute of t, and every time of the same
\* minute has the same anchor
C26_AnchorOfHourAndMinute ==
    unit.fn = "GenerateTimestampWithAnchor" =>
        LET hh == TwoDigits((unit.t \div 3600) % 24)
            mm == TwoDigits((unit.t \div 60) % 60)
        IN  /\ unit.out = "<a id=\"" \o hh \o mm \o "\" href=\"#" \o hh \o mm
                              \o "\">" \o hh \o ":" \o mm \o "</a>"
            /\ \A second \in 0..59 :
                  GenerateTimestampWithAnchor(unit.t - (unit.t % 60) + second)
                      = unit.out

C26_Witness ==
    /\ unit.fn = "GenerateTimestampWithAnchor"
    /\ unit.t = 9 * 3600 + 5 * 60 + 56
    /\ unit.out = "<a id=\"0905\" href=\"#0905\">09:05</a>"

\* C27: for search (expecting status 200), create (201) and update (200):
\* any other status yields the error "{error}: {message}" of the payload, or
\* a parse-failure error when the payload is malformed; the expected status
\* with an undecodable body yields a parse-failure error; a transport failure
\* yields an error containing the failure's text; and none of these returns
\* an entry or a search result
C27_RemoteErrorForms ==
    unit.fn \in {"Search", "CreatePost", "UpdatePost"} =>
        LET resp == unit.resp
            expected == IF unit.fn = "CreatePost" THEN 201 ELSE 200
            parseFailure == IF unit.fn = "Search"
                            THEN "kensaku kekka no kaiseki ni shippai: "
                            ELSE "toukou no kaiseki ni shippai: "
        IN  IF resp.err # ""
            THEN unit.out.isNil /\ unit.out.err = resp.err
            ELSE IF resp.StatusCode # expected /\ resp.Body.wellformed
            THEN /\ unit.out.isNil
                 /\ \E error \in {"", "unauthorized", "not_found"},
                       message \in {"", "Invalid access token"} :
                       /\ ("error" \in DOMAIN resp.Body.object
                              => error = resp.Body.object.error)
                       /\ ("message" \in DOMAIN resp.Body.object
                              => message = resp.Body.object.message)
                       /\ unit.out.err = error \o ": " \o message
            ELSE IF resp.StatusCode # expected
            THEN /\ unit.out.isNil
                 /\ unit.out.err = "error response no kaiseki ni shippai: "
                                       \o resp.Body.syntaxError
            ELSE IF ~resp.Body.wellformed
            THEN /\ unit.out.isNil
                 /\ unit.out.err = parseFailure \o resp.Body.syntaxError
            ELSE ~unit.out.isNil /\ unit.out.err = ""

C27_Witness ==
    /\ unit.fn = "CreatePost"
    /\ unit.resp.err = ""
    /\ unit.resp.StatusCode = 200
    /\ unit.resp.Body.wellformed
    /\ unit.out = [isNil |-> TRUE, err |-> "unauthorized: Invalid access token"]

\* the client calls of one invocation: each operation at most once
EachAtMostOnce(log) ==
    \A i \in DOMAIN log, j \in DOMAIN log : log[i].op = log[j].op => i = j

\* invocation p has ended: with the response of success, or with an error
Ended(p) ==
    /\ pc[p] = "done"
    /\ ret[p].result.Success <=> ret[p].err = ""

C29_ConfigurationInForce ==
    [][/\ debounceConfig' # debounceConfig => debounceMap' = debounceMap
       /\ \A p \in Procs :
             ChecksNow(p) /\ text[p] # <<>> =>
                 (pc'[p] = "debounced" <=>
                     \E s \in DOMAIN lastAllowed :
                         /\ clock - lastAllowed[s] < debounceConfig.Duration
                         /\ \/ s = text[p]
                            \/ /\ ByteLen(s) > 1
                               /\ ByteLen(text[p]) > 1
                               /\ SimilarityAtLeast(
                                      textSimilarity(s, text[p]),
                                      debounceConfig.SimilarityThreshold))]_vars

\* "KN" was suppressed when the entry of "K" was at least a second old, the
\* window was then shortened to that age or less, and "KN" is now accepted
\* with the entry of "K" still in the map
C29_Witness ==
    /\ pc[1] = "record"
    /\ text[1] = <<"K", "N">>
    /\ <<"K", "N">> \notin DOMAIN lastAllowed
    /\ <<"K", "N">> \in DOMAIN lastSuppressed
    /\ <<"K">> \in DOMAIN debounceMap
    /\ lastSuppressed[<<"K", "N">>] > debounceMap[<<"K">>].timestamp
    /\ debounceConfig.Duration < WindowSeconds
    /\ debounceConfig.SimilarityThreshold = ThresholdPercent
    /\ clock - debounceMap[<<"K">>].timestamp >= debounceConfig.Duration

\* C30: when ESA_TEAM_NAME or ESA_ACCESS_TOKEN is missing, a call of the
\* tool ends at once with the configuration error, whatever its arguments;
\* debounceMap is not modified, no text is recorded and no call of the
\* client is made
C30_NotConfigured ==
    [][(env.TeamName = "" \/ env.AccessToken = "") =>
          /\ debounceMap' = debounceMap
          /\ posts' = posts
          /\ \A p \in Procs :
                /\ calls'[p] = <<>>
                /\ InvokedNow(p) =>
                      /\ pc'[p] = "done"
                      /\ ~ret'[p].result.Success
                      /\ ret'[p].err =
                            "ESA_TEAM_NAME mata wa ESA_ACCESS_TOKEN ga settei sarete imasen"]_vars

C30_Witness ==
    /\ env.TeamName = "team"
    /\ env.AccessToken = ""
    /\ pc[1] = "done"
    /\ args[1] = [Text |-> <<"a", "b">>, ConfirmedByUser |-> TRUE]
    /\ ret[1].err = ErrNotConfigured
    /\ debounceMap = EmptyMap
    /\ ninvoked = 2

\* C31: the search of the workflow considers only posts whose category is
\* exactly the one searched: the post it returns is filed under that
\* category, and the error of several posts is returned only when several
\* posts are filed under it
C31_ExactCategoryOnly ==
    [][\A p \in Procs : SearchAnsweredNow(p) =>
          LET exact == {n \in DOMAIN posts :
                           posts[n].Category = Category(now[p])}
          IN  /\ existingPost'[p] # NoPost =>
                    existingPost'[p].Number \in exact
              /\ ret'[p].err = ErrSearchFailed(ErrMultiplePosts) =>
                    Cardinality(exact) > 1]_vars

\* raw is #times-esa followed by white space only
PrefixOnly(raw) ==
    /\ BeginsWith(raw, TimesEsaPrefix)
    /\ \A i \in (Len(TimesEsaPrefix) + 1)..Len(raw) : raw[i] \in WhiteSpaceRunes

\* C33: a confirmed text that is #times-esa followed by white space only
\* passes the argument checks, becomes the empty text, and is rejected by
\* the guard with the duplicate error: nothing is recorded in debounceMap
\* and the client is not called
C33_PrefixOnlyIsDuplicate ==
    [][\A p \in Procs :
          PrefixOnly(args'[p].Text) /\ args'[p].ConfirmedByUser =>
              /\ InvokedNow(p) => pc'[p] = "lock" /\ text'[p] = <<>>
              /\ ChecksNow(p) =>
                    pc'[p] = "debounced" /\ debounceMap' = debounceMap
              /\ pc[p] = "debounced" /\ pc'[p] # "debounced" =>
                    /\ pc'[p] = "done"
                    /\ \E seconds \in {debounceConfig.Duration} :
                          ret'[p] = [result |-> NilResult,
                                     err |-> ErrDebounced(seconds)]
              /\ pc'[p] \in {"lock", "debounced", "done"}
              /\ calls'[p] = <<>>
              /\ <<>> \notin DOMAIN debounceMap']_vars

C33_Witness ==
    /\ args[1].Text = TimesEsaPrefix \o <<" ">>
    /\ text[1] = <<>>
    /\ pc[1] = "done"
    /\ ret[1].err = ErrDebounced(WindowSeconds)
    /\ debounceMap = EmptyMap
    /\ posts = NoPosts

\* the texts that raw may be taken for: raw itself when it does not begin
\* with #times-esa, else what follows the prefix and the white space after it
NormalForms(raw) ==
    IF ~BeginsWith(raw, TimesEsaPrefix) THEN {raw}
    ELSE {SubSeq(raw, i, Len(raw)) : i \in
             {j \in (Len(TimesEsaPrefix) + 1)..(Len(raw) + 1) :
                 /\ \A k \in (Len(TimesEsaPrefix) + 1)..(j - 1) :
                       raw[k] \in WhiteSpaceRunes
                 /\ j <= Len(raw) => raw[j] \notin WhiteSpaceRunes}}

\* C34: the guard is asked about the text without #times-esa and the white
\* space after it: a submission whose text, so reduced, was accepted less
\* than one window ago is suppressed, however either of the two was written;
\* and the text put into the created or updated body is the reduced text
C34_KeyedOnNormalizedText ==
    [][\A p \in Procs :
          /\ InvokedNow(p) /\ pc'[p] = "lock" =>
                text'[p] \in NormalForms(args'[p].Text)
          /\ ChecksNow(p) =>
                \A s \in DOMAIN lastAllowed \cap NormalForms(args[p].Text) :
                    clock - lastAllowed[s] < debounceConfig.Duration
                        => pc'[p] = "debounced"
          /\ pc[p] = "create" /\ posts' # posts =>
                \E x \in NormalForms(args[p].Text) :
                    posts'[NextNumber].BodyMd =
                        GenerateTimestampWithAnchor(clock) \o " " \o Str(x)
                            \o "\n\n---"
          /\ pc[p] = "update" /\ posts' # posts =>
                \E x \in NormalForms(args[p].Text) :
                    posts'[existingPost[p].Number].BodyMd =
                        GenerateTimestampWithAnchor(clock) \o " " \o Str(x)
                            \o "\n\n---\n\n" \o existingPost[p].BodyMd]_vars

\* "#times-esa ab" was accepted and is being filed while "ab", sent by
\* another request, has been suppressed
C34_Witness ==
    /\ args[1].Text = TimesEsaPrefix \o <<" ", "a", "b">>
    /\ pc[1] = "create"
    /\ args[2].Text = <<"a", "b">>
    /\ pc[2] = "debounced"

\* the entry isDebounced leaves for the text it has just allowed, and the
\* other entries as they were
RecordedAlone(p) ==
    /\ text[p] \in DOMAIN debounceMap'
    /\ debounceMap'[text[p]] = [text |-> text[p], timestamp |-> clock]
    /\ \A k \in DOMAIN debounceMap' \ {text[p]} :
          k \in DOMAIN debounceMap /\ debounceMap'[k] = debounceMap[k]

\* C32: a non-empty text with no live entry of its own, which against every
\* live entry is either less than SimilarityThreshold alike or exempt from
\* the comparison (one of the two is one character long), is allowed; the
\* allowed text is entered under itself with the time of the call, replacing
\* an expired entry of the same text, and every other entry that remains is
\* unchanged.
C32_AllowedAndRecorded ==
    [][\A p \in Procs :
          /\ ( /\ ChecksNow(p)
               /\ text[p] # <<>>
               /\ ~( /\ text[p] \in DOMAIN debounceMap
                     /\ clock - debounceMap[text[p]].timestamp
                           < debounceConfig.Duration )
               /\ \A k \in DOMAIN debounceMap :
                     clock - debounceMap[k].timestamp < debounceConfig.Duration
                         => \/ Len(text[p]) <= 1
                            \/ Len(k) <= 1
                            \/ ~SimilarityAtLeast(textSimilarity(text[p], k),
                                       debounceConfig.SimilarityThreshold) )
             => pc'[p] = "record"
          /\ AllowedNow(p) => RecordedAlone(p)]_vars

\* the same with the exemption as utils.go 162 measures it, in bytes
C32_AllowedAndRecordedByBytes ==
    [][\A p \in Procs :
          /\ ( /\ ChecksNow(p)
               /\ text[p] # <<>>
               /\ ~( /\ text[p] \in DOMAIN debounceMap
                     /\ clock - debounceMap[text[p]].timestamp
                           < debounceConfig.Duration )
               /\ \A k \in DOMAIN debounceMap :
                     clock - debounceMap[k].timestamp < debounceConfig.Duration
                         => \/ ByteLen(text[p]) <= 1
                            \/ ByteLen(k) <= 1
                            \/ ~SimilarityAtLeast(textSimilarity(text[p], k),
                                       debounceConfig.SimilarityThreshold) )
             => pc'[p] = "record"
          /\ AllowedNow(p) => RecordedAlone(p)]_vars

\* an expired entry of the text has been replaced while the entry of another
\* text is still in the map
C32_Overwritten ==
    \E p \in Procs :
        /\ pc[p] = "search"
        /\ text[p] \in DOMAIN debounceMap
        /\ debounceMap[text[p]].timestamp = clock
        /\ text[p] \in DOMAIN lastSuppressed
        /\ \E k \in DOMAIN debounceMap : k # text[p]

\* in this step resetDebounce returns
ResetsNow == admin[Resetter] = "locked" /\ admin'[Resetter] = "idle"

\* C35: resetDebounce leaves debounceMap empty and debounceConfig as it was,
\* and a check of a non-empty text made while the map is still empty, as it
\* is right after the reset, is allowed.
C35_ResetClearsMapOnly ==
    [][/\ ResetsNow => /\ DOMAIN debounceMap' = {}
                       /\ debounceConfig' = debounceConfig
       /\ \A p \in Procs :
             ChecksNow(p) /\ text[p] # <<>> /\ DOMAIN debounceMap = {}
                 => pc'[p] = "record"]_vars

\* a text suppressed in this very second has, after a reset under a changed
\* configuration, just been allowed
C35_Witness ==
    \E p \in Procs :
        /\ pc[p] = "record"
        /\ text[p] \in DOMAIN lastSuppressed
        /\ lastSuppressed[text[p]] = clock
        /\ text[p] \in DOMAIN lastAllowed
        /\ lastAllowed[text[p]] = clock
        /\ DOMAIN debounceMap = {}
        /\ debounceConfig.Duration # WindowSeconds

\* C38: with requests, resetDebounce and SetDebounceConfig running side by
\* side under fair scheduling, every call of isDebounced that waits for or
\* holds debounceMutex returns, every call of resetDebounce and of
\* SetDebounceConfig returns, and the mutex, once taken, is released.
C38_EveryCallReturns ==
    /\ \A p \in Procs :
          (pc[p] \in {"lock", "record"}) ~> (pc[p] \notin {"lock", "record"})
    /\ \A t \in {Configurer, Resetter} :
          (admin[t] # "idle") ~> (admin[t] = "idle")
    /\ \A h \in Procs \cup {Configurer, Resetter} :
          (debounceMutex = h) ~> (debounceMutex # h)

\* a request waits for the mutex that resetDebounce holds while
\* SetDebounceConfig waits for it too, after the other request was suppressed
C38_Witness ==
    /\ pc[1] = "lock"
    /\ debounceMutex = Resetter
    /\ admin[Configurer] = "Lock"
    /\ pc[2] = "debounced"

\* the term each option stands for, and the terms of a list of
\* options joined by single spaces
TermsOf(o) ==
    CASE o.opt = "WithCategory" -> <<"category:" \o o.category>>
      [] o.opt = "WithCategoryExact" -> <<"on:" \o o.category>>
      [] o.opt = "WithCategoryPrefix" -> <<"in:" \o o.category>>
      [] o.opt = "WithTags" -> [i \in DOMAIN o.tags |-> "tag:" \o o.tags[i]]
      [] o.opt = "WithKeywords" -> o.keywords
      [] o.opt = "WithUser" -> <<"user:" \o o.screenName>>
      [] o.opt = "WithDateRange" ->
            (IF o.from # "" THEN <<o.field \o ":>" \o o.from>> ELSE <<>>)
                \o (IF o.to # "" THEN <<o.field \o ":<" \o o.to>> ELSE <<>>)
      [] o.opt = "WithWIP" -> <<IF o.wip THEN "wip:true" ELSE "wip:false">>
      [] o.opt = "WithStarred" ->
            <<IF o.starred THEN "starred:true" ELSE "starred:false">>
      [] OTHER -> <<>>

RECURSIVE TermsInOrder(_)
TermsInOrder(options) ==
    IF options = <<>> THEN <<>>
    ELSE TermsOf(Head(options)) \o TermsInOrder(Tail(options))

RECURSIVE SpaceJoined(_)
SpaceJoined(terms) ==
    IF terms = <<>> THEN ""
    ELSE IF Len(terms) = 1 THEN terms[1]
    ELSE terms[1] \o " " \o SpaceJoined(Tail(terms))

\* C36: after any sequence of search options is applied to a fresh
\* configuration, the configuration's query is the terms of the options in
\* the order of application, category terms included, joined by single
\* spaces.
C36_QueryInApplicationOrder ==
    unit.fn = "searchConfig"
        => unit.config.query = SpaceJoined(TermsInOrder(unit.options))

\* the same of the parameter q that Search sends
C36_ParameterInApplicationOrder ==
    unit.fn = "searchConfig"
        => unit.q.value = SpaceJoined(TermsInOrder(unit.options))

\* the options of the combined case of the test give the q the test expects
C36_CombinedParameter ==
    unit.fn = "searchConfig" /\ unit.options = CombinedOptions
        => unit.q.value =
              "category:nippo tag:golang user:test_user wip:false MCP saabaa"

\* C39: whenever the search response reports total_count = 1,
\* SearchPostByCategory returns the first listed post and neither fails nor
\* reads an element of an empty list.
C39_OnePostReturned ==
    ( /\ unit.fn = "SearchPostByCategory"
      /\ unit.resp.err = ""
      /\ unit.resp.StatusCode = 200
      /\ unit.resp.Body.wellformed
      /\ "total_count" \in DOMAIN unit.resp.Body.object
      /\ unit.resp.Body.object.total_count = 1 )
        => /\ "panic" \notin DOMAIN unit.out
           /\ ~unit.out.isNil
           /\ unit.out.err = ""

\* with a post listed, the first listed post is returned
C39_FirstListedReturned ==
    ( /\ unit.fn = "SearchPostByCategory"
      /\ unit.resp.err = ""
      /\ unit.resp.StatusCode = 200
      /\ unit.resp.Body.wellformed
      /\ "total_count" \in DOMAIN unit.resp.Body.object
      /\ unit.resp.Body.object.total_count = 1
      /\ "posts" \in DOMAIN unit.resp.Body.object
      /\ Len(unit.resp.Body.object.posts) > 0 )
        => unit.out = [isNil |-> FALSE, err |-> "",
                       value |-> [Number |-> unit.resp.Body.object.posts[1].number,
                                  BodyMd |-> unit.resp.Body.object.posts[1].body_md]]

\* the entry of text k is live now
LiveNow(k) == clock - debounceMap[k].timestamp < debounceConfig.Duration

\* C37: under a fixed configuration, any two distinct entries of the map
\* that are both live and both longer than one character are less than
\* SimilarityThreshold alike: the map never holds two live entries that
\* would suppress each other.
C37_LiveEntriesUnlike ==
    \A a \in DOMAIN debounceMap, b \in DOMAIN debounceMap :
        ( /\ a # b
          /\ LiveNow(a)
          /\ LiveNow(b)
          /\ Len(a) > 1
          /\ Len(b) > 1 )
            => textSimilarity(a, b)[1] * 100
                  < debounceConfig.SimilarityThreshold * textSimilarity(a, b)[2]

\* two texts unlike each other are both live in the map, the one entered
\* after the other
C37_Witness ==
    /\ <<"a", "b">> \in DOMAIN debounceMap
    /\ <<"x", "y">> \in DOMAIN debounceMap
    /\ LiveNow(<<"a", "b">>)
    /\ LiveNow(<<"x", "y">>)
    /\ debounceMap[<<"a", "b">>].timestamp < debounceMap[<<"x", "y">>].timestamp

====
